---- MODULE Spec2Model ----
(***************************************************************************)
(* Discovery pipeline of NotebooklmCrawler.                                *)
(*                                                                         *)
(*   discovery/edu_search_pipeline.py  EduSearchPipeline.fetch,            *)
(*                                     filter_results, search              *)
(*   crawler/discovery_router.py       discover_urls (scraper router)      *)
(*   discovery/search_manager.py       SearchManager.search                *)
(*   discovery/discovery_router.py     discover_urls (SearchManager router)*)
(*                                                                         *)
(* Python strings are sequences of one-character strings, so that          *)
(* lower(), rstrip, split, replace, `in` and urlparse are computed and not *)
(* assumed.  Titles and snippets of hits are carried through unchanged by  *)
(* the code and take part in no decision; hits are modelled by their url.  *)
(***************************************************************************)
EXTENDS Integers, Sequences, FiniteSets, TLC

(***************************************************************************)
(* Bounds of the model.                                                    *)
(***************************************************************************)
\* longest raw-hit list enumerated over the whole URL pool
MaxHits == 2
\* length of the one long raw-hit list (distinct URLs) a backend may return
LongHits == 16

(***************************************************************************)
(* Program constants.                                                      *)
(***************************************************************************)
MAX_RETRIES == 3

(***************************************************************************)
(* String helpers (Python str semantics).                                  *)
(***************************************************************************)
UpperToLower ==
    "A" :> "a" @@ "B" :> "b" @@ "C" :> "c" @@ "D" :> "d" @@ "E" :> "e" @@ "F" :> "f"
    @@ "G" :> "g" @@ "H" :> "h" @@ "I" :> "i" @@ "J" :> "j" @@ "K" :> "k" @@ "L" :> "l"
    @@ "M" :> "m" @@ "N" :> "n" @@ "O" :> "o" @@ "P" :> "p" @@ "Q" :> "q" @@ "R" :> "r"
    @@ "S" :> "s" @@ "T" :> "t" @@ "U" :> "u" @@ "V" :> "v" @@ "W" :> "w" @@ "X" :> "x"
    @@ "Y" :> "y" @@ "Z" :> "z"

LowerChar(c) == IF c \in DOMAIN UpperToLower THEN UpperToLower[c] ELSE c

\* str.lower()
Lower(s) == [i \in 1..Len(s) |-> LowerChar(s[i])]

\* pat in s
Contains(s, pat) ==
    \E i \in 0..(Len(s) - Len(pat)) : \A j \in 1..Len(pat) : s[i + j] = pat[j]

\* s.rstrip("/")
RECURSIVE RStripSlash(_)
RStripSlash(s) ==
    IF s # <<>> /\ s[Len(s)] = "/" THEN RStripSlash(SubSeq(s, 1, Len(s) - 1))
    ELSE s

\* s.find(c, from): least 0-based index >= from holding c, or -1
Find(s, c, from) ==
    LET hits == {i \in from..(Len(s) - 1) : s[i + 1] = c}
    IN  IF hits = {} THEN -1 ELSE CHOOSE i \in hits : \A j \in hits : i <= j

\* s.split(c)[0]
SplitFirst(s, c) ==
    LET i == Find(s, c, 0)
    IN  IF i = -1 THEN s ELSE SubSeq(s, 1, i)

\* s.replace(pat, ""), pat non-empty: every non-overlapping occurrence, left to right
RECURSIVE RemoveAll(_, _)
RemoveAll(s, pat) ==
    IF Len(s) < Len(pat) THEN s
    ELSE IF SubSeq(s, 1, Len(pat)) = pat
         THEN RemoveAll(SubSeq(s, Len(pat) + 1, Len(s)), pat)
         ELSE <<s[1]>> \o RemoveAll(SubSeq(s, 2, Len(s)), pat)

SchemeChars ==
    {"a", "b", "c", "d", "e", "f", "g", "h", "i", "j", "k", "l", "m", "n", "o",
     "p", "q", "r", "s", "t", "u", "v", "w", "x", "y", "z",
     "A", "B", "C", "D", "E", "F", "G", "H", "I", "J", "K", "L", "M", "N", "O",
     "P", "Q", "R", "S", "T", "U", "V", "W", "X", "Y", "Z",
     "0", "1", "2", "3", "4", "5", "6", "7", "8", "9", "+", "-", "."}

Letters == SchemeChars \ {"0", "1", "2", "3", "4", "5", "6", "7", "8", "9", "+", "-", "."}

\* urllib.parse.urlparse(url).netloc: the scheme is split off at the first ':'
\* when everything before it is a scheme; the netloc is what follows a leading
\* '//' up to the first of '/', '?', '#'.  Its case is kept.
Netloc(url) ==
    LET i    == Find(url, ":", 0)
        isSc == /\ i > 0
                /\ url[1] \in Letters
                /\ \A j \in 1..i : url[j] \in SchemeChars
        rest == IF isSc THEN SubSeq(url, i + 2, Len(url)) ELSE url
        ds   == {Find(rest, c, 2) : c \in {"/", "?", "#"}} \ {-1}
        dl   == IF ds = {} THEN Len(rest)
                ELSE CHOOSE d \in ds : \A e \in ds : d <= e
    IN  IF Len(rest) >= 2 /\ SubSeq(rest, 1, 2) = <<"/", "/">>
        THEN SubSeq(rest, 3, dl)
        ELSE <<>>

(***************************************************************************)
(* Configuration.                                                          *)
(***************************************************************************)
URL_EXCLUDE_PATTERNS ==
    << <<"/", "l", "o", "g", "i", "n">>,
       <<"/", "s", "i", "g", "n", "u", "p">>,
       <<"/", "p", "r", "i", "c", "i", "n", "g">>,
       <<"/", "c", "a", "r", "t">>,
       <<"/", "c", "h", "e", "c", "k", "o", "u", "t">>,
       <<"/", "s", "u", "b", "s", "c", "r", "i", "b", "e">>,
       <<"/", "p", "r", "e", "m", "i", "u", "m">>,
       <<"/", "a", "p", "p", "-", "d", "o", "w", "n", "l", "o", "a", "d">>,
       <<"/", "t", "r", "i", "a", "l">> >>

TRUSTED_DOMAINS_CORE ==
    << <<"k", "h", "a", "n", "a", "c", "a", "d", "e", "m", "y", ".", "o", "r", "g">>,
       <<"c", "k", "1", "2", ".", "o", "r", "g">>,
       <<"e", "d", "u", "c", "a", "t", "i", "o", "n", ".", "c", "o", "m">>,
       <<"p", "b", "s", "l", "e", "a", "r", "n", "i", "n", "g", "m", "e", "d", "i", "a", ".", "o", "r", "g">>,
       <<"b", "y", "j", "u", "s", ".", "c", "o", "m">>,
       <<"o", "p", "e", "n", "s", "t", "a", "x", ".", "o", "r", "g">>,
       <<"b", "r", "i", "l", "l", "i", "a", "n", "t", ".", "o", "r", "g">>,
       <<"b", "r", "i", "t", "a", "n", "n", "i", "c", "a", ".", "c", "o", "m">> >>

TRUSTED_DOMAINS_BY_BAND ==
    "K-4" :> <<
          [key |-> <<"m", "a", "t", "h">>,
            doms |-> << <<"a", "b", "c", "y", "a", ".", "c", "o", "m">>,
                      <<"c", "o", "o", "l", "m", "a", "t", "h", "4", "k", "i", "d", "s", ".", "c", "o", "m">>,
                      <<"m", "a", "t", "h", "s", "e", "e", "d", "s", ".", "c", "o", "m">> >>],
          [key |-> <<"s", "c", "i", "e", "n", "c", "e">>,
            doms |-> << <<"k", "i", "d", "s", ".", "n", "a", "t", "i", "o", "n", "a", "l", "g", "e", "o", "g", "r", "a", "p", "h", "i", "c", ".", "c", "o", "m">>,
                      <<"s", "c", "i", "e", "n", "c", "e", "b", "o", "b", ".", "c", "o", "m">> >>],
          [key |-> <<"s", "o", "c", "i", "a", "l", "_", "s", "t", "u", "d", "i", "e", "s">>,
            doms |-> << <<"d", "u", "c", "k", "s", "t", "e", "r", "s", ".", "c", "o", "m">>,
                      <<"p", "b", "s", "k", "i", "d", "s", ".", "o", "r", "g">> >>],
          [key |-> <<"l", "a", "n", "g", "u", "a", "g", "e", "_", "a", "r", "t", "s">>,
            doms |-> << <<"s", "t", "a", "r", "f", "a", "l", "l", ".", "c", "o", "m">>,
                      <<"r", "e", "a", "d", "w", "o", "r", "k", "s", ".", "o", "r", "g">>,
                      <<"s", "t", "o", "r", "y", "l", "i", "n", "e", "o", "n", "l", "i", "n", "e", ".", "n", "e", "t">> >>],
          [key |-> <<"r", "e", "f", "e", "r", "e", "n", "c", "e">>,
            doms |-> << <<"k", "i", "d", "s", ".", "b", "r", "i", "t", "a", "n", "n", "i", "c", "a", ".", "c", "o", "m">>,
                      <<"d", "u", "c", "k", "s", "t", "e", "r", "s", ".", "c", "o", "m">>,
                      <<"i", "n", "f", "o", "p", "l", "e", "a", "s", "e", ".", "c", "o", "m">> >>] >>
    @@ "5-8" :> <<
          [key |-> <<"m", "a", "t", "h">>,
            doms |-> << <<"i", "x", "l", ".", "c", "o", "m">>,
                      <<"m", "a", "t", "h", "w", "a", "y", ".", "c", "o", "m">>,
                      <<"d", "e", "s", "m", "o", "s", ".", "c", "o", "m">> >>],
          [key |-> <<"s", "c", "i", "e", "n", "c", "e">>,
            doms |-> << <<"b", "y", "j", "u", "s", ".", "c", "o", "m">>,
                      <<"c", "k", "1", "2", ".", "o", "r", "g">> >>],
          [key |-> <<"r", "e", "f", "e", "r", "e", "n", "c", "e">>,
            doms |-> << <<"k", "i", "d", "s", ".", "b", "r", "i", "t", "a", "n", "n", "i", "c", "a", ".", "c", "o", "m">>,
                      <<"i", "n", "f", "o", "p", "l", "e", "a", "s", "e", ".", "c", "o", "m">> >>] >>
    @@ "9-12" :> <<
          [key |-> <<"m", "a", "t", "h">>,
            doms |-> << <<"d", "e", "s", "m", "o", "s", ".", "c", "o", "m">>,
                      <<"b", "r", "i", "l", "l", "i", "a", "n", "t", ".", "o", "r", "g">> >>],
          [key |-> <<"s", "c", "i", "e", "n", "c", "e">>,
            doms |-> << <<"b", "i", "o", "i", "n", "t", "e", "r", "a", "c", "t", "i", "v", "e", ".", "o", "r", "g">>,
                      <<"l", "a", "b", "x", "c", "h", "a", "n", "g", "e", ".", "o", "r", "g">>,
                      <<"c", "k", "1", "2", ".", "o", "r", "g">> >>],
          [key |-> <<"h", "i", "s", "t", "o", "r", "y">>,
            doms |-> << <<"c", "r", "a", "s", "h", "c", "o", "u", "r", "s", "e", ".", "c", "o", "m">>,
                      <<"b", "i", "g", "h", "i", "s", "t", "o", "r", "y", "p", "r", "o", "j", "e", "c", "t", ".", "c", "o", "m">> >>],
          [key |-> <<"r", "e", "f", "e", "r", "e", "n", "c", "e">>,
            doms |-> << <<"s", "c", "h", "o", "l", "a", "r", "p", "e", "d", "i", "a", ".", "o", "r", "g">>,
                      <<"c", "i", "t", "i", "z", "e", "n", "d", "i", "u", "m", ".", "o", "r", "g">>,
                      <<"o", "p", "e", "n", "s", "t", "a", "x", ".", "o", "r", "g">> >>] >>

(***************************************************************************)
(* Helpers and step 1, domain resolution.                                  *)
(***************************************************************************)
_get_grade_band(grade) ==
    IF grade <= 4 THEN "K-4" ELSE IF grade <= 8 THEN "5-8" ELSE "9-12"

\* mutant of Dedup: the last occurrence of an entry is kept, not the first
RECURSIVE Dedup_KeepLast(_)
Dedup_KeepLast(s) ==
    IF s = <<>> THEN <<>>
    ELSE LET rest == Dedup_KeepLast(SubSeq(s, 2, Len(s)))
         IN  IF \E i \in 2..Len(s) : s[i] = s[1] THEN rest
             ELSE <<s[1]>> \o rest

\* list(dict.fromkeys(domains)): first occurrences, in order
RECURSIVE Dedup(_)
Dedup(s) ==
    IF s = <<>> THEN <<>>
    ELSE LET init == Dedup(SubSeq(s, 1, Len(s) - 1))
             last == s[Len(s)]
         IN  IF \E i \in 1..Len(init) : init[i] = last THEN init
             ELSE Append(init, last)

\* the subject loop: the first key, in map order, with key in subject_lower or
\* subject_lower in key; 0 when none matches
MatchedKey_Last(band_map, subject_lower) ==
    LET ms == {i \in 1..Len(band_map) :
                  \/ Contains(subject_lower, band_map[i].key)
                  \/ Contains(band_map[i].key, subject_lower)}
    IN  IF ms = {} THEN 0 ELSE CHOOSE i \in ms : \A j \in ms : i >= j

MatchedKey(band_map, subject_lower) ==
    LET ms == {i \in 1..Len(band_map) :
                  \/ Contains(subject_lower, band_map[i].key)
                  \/ Contains(band_map[i].key, subject_lower)}
    IN  IF ms = {} THEN 0 ELSE CHOOSE i \in ms : \A j \in ms : i <= j

KeyReference == <<"r", "e", "f", "e", "r", "e", "n", "c", "e">>

\* the local domains of resolve_domains before the deduplication
MergedDomains(core, grade, subject, extra_domains) ==
    LET band     == _get_grade_band(grade)
        band_map == TRUSTED_DOMAINS_BY_BAND[band]
        m        == MatchedKey(band_map, Lower(subject))
        subj     == IF m = 0 THEN <<>> ELSE band_map[m].doms
        refs     == {i \in 1..Len(band_map) : band_map[i].key = KeyReference}
        ref      == IF refs = {} THEN <<>>
                    ELSE band_map[CHOOSE i \in refs : TRUE].doms
    IN  core \o subj \o ref \o extra_domains

resolve_domains(grade, subject, extra_domains) ==
    Dedup(MergedDomains(TRUSTED_DOMAINS_CORE, grade, subject, extra_domains))

(***************************************************************************)
(* Step 4, filter.  A raw hit is [url |-> chars]; a SearchResult is        *)
(* [url, domain, is_trusted].                                              *)
(***************************************************************************)
WwwDot == <<"w", "w", "w", ".">>

\* norm = url.rstrip("/").lower().split("?")[0].split("#")[0]
NormUrl(url) == SplitFirst(SplitFirst(Lower(RStripSlash(url)), "?"), "#")

\* any(pat in url.lower() for pat in URL_EXCLUDE_PATTERNS)
IsExcluded(url) ==
    LET url_lower == Lower(url)
    IN  \E i \in 1..Len(URL_EXCLUDE_PATTERNS) :
            Contains(url_lower, URL_EXCLUDE_PATTERNS[i])

\* domain = urlparse(url).netloc.replace("www.", "")
DomainOf(url) == RemoveAll(Netloc(url), WwwDot)

\* is_trusted = any(td in domain for td in trusted_domains)
IsTrusted(domain, trusted_domains) ==
    \E i \in 1..Len(trusted_domains) : Contains(domain, trusted_domains[i])

\* mutant of SortTrustedFirst: the sort is left out
SortTrustedFirst_None(output) == output

\* output.sort(key=lambda x: (0 if x.is_trusted else 1)): a stable sort on a
\* two-valued key
SortTrustedFirst(output) ==
    SelectSeq(output, LAMBDA r : r.is_trusted)
        \o SelectSeq(output, LAMBDA r : ~r.is_trusted)

\* the for loop of filter_results, from raw hit i on
RECURSIVE FilterLoop(_, _, _, _, _, _)
FilterLoop(raw_results, i, seen, output, trusted_domains, strict) ==
    IF i > Len(raw_results) THEN output
    ELSE
      LET url        == raw_results[i].url
          norm       == NormUrl(url)
          domain     == DomainOf(url)
          is_trusted == IsTrusted(domain, trusted_domains)
      IN  IF url = <<>>
          THEN FilterLoop(raw_results, i + 1, seen, output, trusted_domains, strict)
          ELSE IF norm \in seen
          THEN FilterLoop(raw_results, i + 1, seen, output, trusted_domains, strict)
          ELSE IF IsExcluded(url)
          THEN FilterLoop(raw_results, i + 1, seen \cup {norm}, output,
                          trusted_domains, strict)
          ELSE IF strict /\ ~is_trusted
          THEN FilterLoop(raw_results, i + 1, seen \cup {norm}, output,
                          trusted_domains, strict)
          ELSE FilterLoop(raw_results, i + 1, seen \cup {norm},
                          Append(output, [url |-> url, domain |-> domain,
                                          is_trusted |-> is_trusted]),
                          trusted_domains, strict)

filter_results(raw_results, trusted_domains, strict) ==
    SortTrustedFirst(FilterLoop(raw_results, 1, {}, <<>>, trusted_domains, strict))

(***************************************************************************)
(* Inputs: what the backends may answer and what a caller may request.     *)
(***************************************************************************)
UrlUnit == <<"h", "t", "t", "p", "s", ":", "/", "/", "c", "k", "1", "2", ".", "o", "r", "g", "/", "u", "n", "i", "t">>
UrlIxl == <<"h", "t", "t", "p", "s", ":", "/", "/", "w", "w", "w", ".", "i", "x", "l", ".", "c", "o", "m", "/", "m", "a", "t", "h">>
UrlOther == <<"h", "t", "t", "p", "s", ":", "/", "/", "e", "x", ".", "i", "o", "/", "a">>
UrlLogin == <<"h", "t", "t", "p", "s", ":", "/", "/", "e", "x", ".", "i", "o", "/", "l", "o", "g", "i", "n">>
LongPrefix == <<"h", "t", "t", "p", "s", ":", "/", "/", "c", "k", "1", "2", ".", "o", "r", "g", "/">>
SubjMath == <<"M", "a", "t", "h">>
SubjArt == <<"A", "r", "t">>
ErrRateLimit == <<"2", "0", "2", " ", "R", "a", "t", "e", "l", "i", "m", "i", "t">>
ErrTooMany == <<"4", "2", "9", " ", "T", "o", "o", " ", "M", "a", "n", "y", " ", "R", "e", "q", "u", "e", "s", "t", "s">>
ErrTimeout == <<"t", "i", "m", "e", "d", " ", "o", "u", "t">>

UrlPool == {UrlUnit, UrlIxl, UrlOther, UrlLogin}

\* LongHits hits with pairwise distinct urls on a trusted domain
LongList ==
    [n \in 1..LongHits |-> [url |-> LongPrefix \o [j \in 1..n |-> "p"]]]

Min(a, b) == IF a <= b THEN a ELSE b

\* the raw-hit lists ddgs.text may yield: at most max_results hits
RawHitLists(max_results) ==
    UNION {[1..n -> {[url |-> u] : u \in UrlPool}] : n \in 0..Min(MaxHits, max_results)}
        \cup (IF max_results >= LongHits THEN {LongList} ELSE {})

\* the exceptions ddgs.text may raise, by message: the backend's rate-limit
\* signals, and a hard error
RateLimitErrors == {ErrRateLimit, ErrTooMany}

ErrorPool == RateLimitErrors \cup {ErrTimeout}

\* the calls of search a caller makes
Requests ==
    {[grade |-> 8, subject |-> SubjMath, strict_domain_filter |-> TRUE,
      max_results |-> MaxHits],
     [grade |-> 3, subject |-> SubjArt, strict_domain_filter |-> TRUE,
      max_results |-> 1],
     [grade |-> 3, subject |-> SubjMath, strict_domain_filter |-> FALSE,
      max_results |-> LongHits],
     [grade |-> 8, subject |-> SubjMath, strict_domain_filter |-> FALSE,
      max_results |-> 0]}

(***************************************************************************)
(* Step 2, query construction: the parts that differ between the strict    *)
(* and the relaxed query.                                                  *)
(***************************************************************************)
\* domains None or empty: no site clause
build_query(grade, subject, domains) ==
    [grade |-> grade, subject |-> subject, sites |-> domains]

\* the connections an event loop serves at a time
Slots == 1..2

(***************************************************************************)
(* State.                                                                  *)
(***************************************************************************)
VARIABLES
    pc,          \* search: "idle", "strict", "relaxed", "done"
    req,         \* the arguments of the search call in progress
    results,     \* search: its local results
    ret,         \* search: "none", "returned" (results), "raised"
    fetches,     \* search: the fetch calls made so far, each with its outcome
    fpc,         \* fetch: "off", "call" (about to call ddgs.text), "sleep",
                 \*        "returned", "raised"
    query,       \* fetch: its query argument
    backend,     \* fetch: index into backends
    attempt,     \* fetch: the loop variable of range(MAX_RETRIES)
    last_error,  \* fetch: <<>> for None, <<message>> otherwise
    log,         \* fetch: the backend calls and sleeps of this fetch, in order
    thrown,      \* <<>>, or <<message>> of the last exception ddgs.text raised
    raw,         \* the raw hits the fetch returned
    raised       \* <<>>, or <<exception>> the fetch raised

\* crawler/discovery_router.py, discover_urls
VARIABLES
    rpc,               \* "idle", "primary", "fallback" (awaiting a scraper), "done"
    method,            \* the method argument, lower-cased
    page,              \* whether a browser page was passed (FALSE: None)
    primary_strategy,  \* "ddg" or "google"
    urls,              \* the local urls
    scraped,           \* the scraper calls made, in order, each with its outcome
    shown,             \* what the page showed in each scraper call, in order
    r_ret              \* "none", "returned" (urls), "raised"

\* discovery/search_manager.py, SearchManager.search, and
\* discovery/discovery_router.py, discover_urls
VARIABLES
    mpc,          \* "idle", "ddg", "google" (in that backend), "router", "done"
    m_method,     \* search: the method argument, lower-cased
    credentials,  \* whether google_api_key and google_cx are both set
    queried,      \* search: the backend calls made, in order, with outcomes
    m_ret,        \* search: <<>>, <<"returned", urls>> or <<"raised">>
    d_ret         \* discover_urls: <<>>, <<"returned", urls>> or <<"raised">>

\* filter_results called on its own
VARIABLES
    f_pc,       \* "idle", "call" (arguments bound), "done"
    f_raw,      \* the raw_results argument
    f_strict,   \* the strict argument
    f_blocked,  \* the blocked domains the caller holds (bridge.py)
    f_out       \* the list returned

\* bridge.py, the event loop serving POST /api/discovery/fetch
\* (fetch_discovery_urls) and callers of the async discover_urls
VARIABLES
    c_kind,    \* per connection: "none", "endpoint", "router"
    c_body,    \* per connection: the request body, or the method argument
    c_state,   \* per connection: "none", "pending" (coroutine scheduled),
               \*   "offloaded" (awaiting the worker thread), "resolved"
               \*   (the thread finished), "responded"
    c_thread,  \* per connection: the thread its search call was made on:
               \*   "none", "loop", "worker"
    c_result   \* per connection: the thread's outcome, then the response

\* resolve_domains called on its own
VARIABLES
    d_pc,          \* "idle", "done"
    d_args,        \* the arguments of the last call
    d_cat,         \* its local domains before the deduplication
    d_out,         \* the list it returned
    d_prev,        \* <<>>, or <<the call before it, arguments and result>>
    core_domains   \* self.core_domains, the configured list

\* build_query called on its own, with and without the domains of its request
VARIABLES
    q_pc,       \* "idle", "done"
    q_args,     \* the arguments of the last call
    q_int,      \* the outcome of int(grade) in that call
    q_band,     \* the band it looked the exclusions up with
    q_strict,   \* the string it returned
    q_relaxed,  \* the string returned for the same arguments and domains=None
    q_raised    \* the exception that left the call: "none" or its type

\* crawler/discovery_router.py, filter_urls as run.py calls it
VARIABLES
    u_pc,           \* "idle", "call" (arguments bound), "done"
    u_urls,         \* the urls argument
    u_source_type,  \* the source_type argument: a SourceType member or a str
    u_out           \* the list returned

\* run.py, get_target_urls with the discovery cache file and the environment
VARIABLES
    k_file,  \* the cache file: <<>> (missing) or <<its JSON object>>
    k_env,   \* the value of TARGET_URL; <<>> when unset or empty
    k_last   \* <<>>, or <<the last get_target_urls call>>: the file before and after it and its outcome

\* postprocess/chunker.py, chunk_sections as run.py calls it
VARIABLES
    h_pc,        \* "idle", "call" (arguments bound), "done"
    h_sections,  \* the sections argument
    h_strategy,  \* the strategy argument
    h_keywords,  \* the keywords argument; <<>> for None
    h_chunks     \* the list returned

\* fetch with the lengths of its backoff sleeps
VARIABLES
    t_pc,       \* "off", "call", "sleep", "returned", "raised"
    t_backend,  \* index into backends
    t_attempt,  \* the loop variable attempt
    t_delay,    \* the local delay of the sleep in progress, else 0
    t_called,   \* the calls made on this backend, in order, each with its outcome
    t_slept,    \* the lengths of the sleeps taken on this backend, in order
    t_ret       \* the list returned

\* two fetch calls in progress at once (two threads, one pipeline object)
VARIABLES
    p_pc,          \* per call: "off", "call", "sleep", "returned", "raised"
    p_backend,     \* per frame: index into backends
    p_attempt,     \* per frame: the loop variable attempt
    p_last_error,  \* per frame: <<>> (None) or <<the message>>
    p_results,     \* per frame: the local results
    p_log,         \* per call: the backend calls it made, in order, with outcomes
    p_ret          \* per call: <<>>, <<the list returned>> or <<the exception raised>>

searchVars == <<pc, req, results, ret, fetches, fpc, query, backend, attempt,
                last_error, log, thrown, raw, raised>>

routerVars == <<rpc, method, page, primary_strategy, urls, scraped, shown,
               r_ret>>

managerVars == <<mpc, m_method, credentials, queried, m_ret, d_ret>>

filterVars == <<f_pc, f_raw, f_strict, f_blocked, f_out>>

serverVars == <<c_kind, c_body, c_state, c_thread, c_result>>

resolveVars == <<d_pc, d_args, d_cat, d_out, d_prev, core_domains>>

queryVars == <<q_pc, q_args, q_int, q_band, q_strict, q_relaxed, q_raised>>

crawlVars == <<u_pc, u_urls, u_source_type, u_out>>

cacheVars == <<k_file, k_env, k_last>>

chunkVars == <<h_pc, h_sections, h_strategy, h_keywords, h_chunks>>

backoffVars == <<t_pc, t_backend, t_attempt, t_delay, t_called, t_slept, t_ret>>

pairVars == <<p_pc, p_backend, p_attempt, p_last_error, p_results, p_log, p_ret>>

vars == <<searchVars, routerVars, managerVars, filterVars, serverVars,
          resolveVars,
    queryVars,
    crawlVars,
    cacheVars,
    chunkVars,
    backoffVars,
    pairVars>>

\* what the actions of one component leave alone
notSearch == <<routerVars, managerVars, filterVars, serverVars,
    resolveVars,
    queryVars,
    crawlVars,
    cacheVars,
    chunkVars,
    backoffVars,
    pairVars>>

notRouter == <<searchVars, managerVars, filterVars, serverVars,
    resolveVars,
    queryVars,
    crawlVars,
    cacheVars,
    chunkVars,
    backoffVars,
    pairVars>>

notManager == <<searchVars, routerVars, filterVars, serverVars,
    resolveVars,
    queryVars,
    crawlVars,
    cacheVars,
    chunkVars,
    backoffVars,
    pairVars>>

notFilter == <<searchVars, routerVars, managerVars, serverVars,
    resolveVars,
    queryVars,
    crawlVars,
    cacheVars,
    chunkVars,
    backoffVars,
    pairVars>>

notResolve == <<searchVars, routerVars, managerVars, filterVars, serverVars,
    queryVars,
    crawlVars,
    cacheVars,
    chunkVars,
    backoffVars,
    pairVars>>

notServer == <<searchVars, routerVars, managerVars, filterVars,
    resolveVars,
    queryVars,
    crawlVars,
    cacheVars,
    chunkVars,
    backoffVars,
    pairVars>>

notQuery == <<searchVars, routerVars, managerVars, filterVars,
    serverVars, resolveVars,
    crawlVars,
    cacheVars,
    chunkVars,
    backoffVars,
    pairVars>>

notCrawl == <<searchVars, routerVars, managerVars, filterVars,
    serverVars, resolveVars, queryVars,
    cacheVars,
    chunkVars,
    backoffVars,
    pairVars>>

notCache == <<searchVars, routerVars, managerVars, filterVars,
    serverVars, resolveVars, queryVars, crawlVars,
    chunkVars,
    backoffVars,
    pairVars>>

notChunk == <<searchVars, routerVars, managerVars, filterVars,
    serverVars, resolveVars, queryVars, crawlVars,
    cacheVars,
    backoffVars,
    pairVars>>

notBackoff == <<searchVars, routerVars, managerVars, filterVars,
    serverVars, resolveVars, queryVars, crawlVars,
    cacheVars, chunkVars,
    pairVars>>

notPair == <<searchVars, routerVars, managerVars, filterVars,
    serverVars, resolveVars, queryVars, crawlVars,
    cacheVars, chunkVars, backoffVars>>

\* mutant of backends: the first two backends swapped
backends_Swapped == <<"lite", "auto", "html">>

backends == <<"auto", "lite", "html">>

NoRequest == [grade |-> 0, subject |-> <<>>, strict_domain_filter |-> FALSE,
              max_results |-> 0]

NoQuery == build_query(0, <<>>, <<>>)

Init ==
    /\ pc = "idle"
    /\ req = NoRequest
    /\ results = <<>>
    /\ ret = "none"
    /\ fetches = <<>>
    /\ fpc = "off"
    /\ query = NoQuery
    /\ backend = 1
    /\ attempt = 0
    /\ last_error = <<>>
    /\ log = <<>>
    /\ thrown = <<>>
    /\ raw = <<>>
    /\ raised = <<>>
    /\ rpc = "idle"
    /\ method = <<>>
    /\ page = FALSE
    /\ primary_strategy = "ddg"
    /\ urls = <<>>
    /\ scraped = <<>>
    /\ shown = <<>>
    /\ r_ret = "none"
    /\ mpc = "idle"
    /\ m_method = <<>>
    /\ credentials = FALSE
    /\ queried = <<>>
    /\ m_ret = <<>>
    /\ d_ret = <<>>
    /\ f_pc = "idle"
    /\ f_raw = <<>>
    /\ f_strict = FALSE
    /\ f_blocked = <<>>
    /\ f_out = <<>>
    /\ c_kind = [s \in Slots |-> "none"]
    /\ c_body = [s \in Slots |-> <<>>]
    /\ c_state = [s \in Slots |-> "none"]
    /\ c_thread = [s \in Slots |-> "none"]
    /\ c_result = [s \in Slots |-> <<>>]
    /\ d_pc = "idle"
    /\ d_args = [grade |-> 0, subject |-> <<>>, extra_domains |-> <<>>]
    /\ d_cat = <<>>
    /\ d_out = <<>>
    /\ d_prev = <<>>
    /\ core_domains = TRUSTED_DOMAINS_CORE
    /\ q_pc = "idle"
    /\ q_args = <<>>
    /\ q_int = <<>>
    /\ q_band = "none"
    /\ q_strict = <<>>
    /\ q_relaxed = <<>>
    /\ q_raised = "none"
    /\ u_pc = "idle"
    /\ u_urls = <<>>
    /\ u_source_type = [enum |-> FALSE, value |-> "general"]
    /\ u_out = <<>>
    /\ k_file = <<>>
    /\ k_env = <<>>
    /\ k_last = <<>>
    /\ h_pc = "idle"
    /\ h_sections = <<>>
    /\ h_strategy = "section_aware"
    /\ h_keywords = <<>>
    /\ h_chunks = <<>>
    /\ t_pc = "off"
    /\ t_backend = 1
    /\ t_attempt = 0
    /\ t_delay = 0
    /\ t_called = <<>>
    /\ t_slept = <<>>
    /\ t_ret = <<>>
    /\ p_pc = [c \in 1..2 |-> "off"]
    /\ p_backend = [c \in 1..2 |-> 1]
    /\ p_attempt = [c \in 1..2 |-> 0]
    /\ p_last_error = [c \in 1..2 |-> <<>>]
    /\ p_results = [c \in 1..2 |-> <<>>]
    /\ p_log = [c \in 1..2 |-> <<>>]
    /\ p_ret = [c \in 1..2 |-> <<>>]

\* search's local domains
domains == resolve_domains(req.grade, req.subject, <<>>)

(***************************************************************************)
(* Step 3, fetch: backend rotation with retries on rate limits.            *)
(***************************************************************************)
RATE_LIMIT_MARKERS ==
    << <<"4", "1", "8">>,
       <<"2", "0", "2">>,
       <<"r", "a", "t", "e", "l", "i", "m", "i", "t">>,
       <<"r", "a", "t", "e", " ", "l", "i", "m", "i", "t">>,
       <<"t", "o", "o", " ", "m", "a", "n", "y">> >>
DDGSearchErrorPrefix == <<"A", "l", "l", " ", "b", "a", "c", "k", "e", "n", "d", "s", " ", "e", "x", "h", "a", "u", "s", "t", "e", "d", ".", " ", "L", "a", "s", "t", " ", "e", "r", "r", "o", "r", ":", " ">>

\* mutant of is_rate_limit: every error is taken for a rate limit
is_rate_limit_Any(e) == TRUE

\* is_rate_limit = any(s in str(e).lower() for s in [...])
is_rate_limit(e) ==
    LET err == Lower(e)
    IN  \E i \in 1..Len(RATE_LIMIT_MARKERS) : Contains(err, RATE_LIMIT_MARKERS[i])

\* mutant of RecordError: only the first error is kept
RecordError_First(e) == IF last_error = <<>> THEN <<e>> ELSE last_error

\* last_error = e
RecordError(e) == <<e>>

\* mutant of MoreAttempts: one attempt too many
MoreAttempts_OffByOne(a) == a + 1 <= MAX_RETRIES

\* for attempt in range(MAX_RETRIES): whether another iteration follows a
MoreAttempts(a) == a + 1 < MAX_RETRIES

\* raise DDGSearchError(f"All backends exhausted. Last error: {last_error}")
DDGSearchError(err) ==
    [type |-> "DDGSearchError",
     msg |-> DDGSearchErrorPrefix \o (IF err = <<>> THEN <<"N", "o", "n", "e">> ELSE err[1])]

\* what a call of ddgs.text was: the backend, the attempt, and its outcome
\* ("ok", or the kind of error the backend signalled)
CallEvent(out) ==
    [ev |-> "call", backend |-> backends[backend], attempt |-> attempt, out |-> out]

SleepEvent ==
    [ev |-> "sleep", backend |-> backends[backend], attempt |-> attempt, out |-> "-"]

ErrorKind(e) == IF e \in RateLimitErrors THEN "ratelimit" ELSE "error"

\* fetch is entered: its locals
BeginFetch(q) ==
    /\ fpc' = "call"
    /\ query' = q
    /\ backend' = 1
    /\ attempt' = 0
    /\ last_error' = <<>>
    /\ log' = <<>>
    /\ thrown' = <<>>
    /\ raw' = <<>>
    /\ raised' = <<>>

\* the inner loop is left ("Backend exhausted"): the next backend, or the raise
\* after the outer loop
NextBackend(err) ==
    IF backend < Len(backends)
    THEN /\ backend' = backend + 1
         /\ attempt' = 0
         /\ fpc' = "call"
         /\ UNCHANGED raised
    ELSE /\ fpc' = "raised"
         /\ raised' = <<DDGSearchError(err)>>
         /\ UNCHANGED <<backend, attempt>>

\* ddgs.text yields its hits: return results
CallReturns ==
    /\ fpc = "call"
    /\ \E hits \in RawHitLists(req.max_results) : raw' = hits
    /\ log' = Append(log, CallEvent("ok"))
    /\ fpc' = "returned"
    /\ UNCHANGED <<pc, req, results, ret, fetches, query, backend, attempt,
                   last_error, thrown, raised>>
    /\ UNCHANGED notSearch

\* ddgs.text raises and the error is taken for a rate limit: time.sleep(delay)
CallRateLimited ==
    /\ fpc = "call"
    /\ \E e \in ErrorPool :
          /\ is_rate_limit(e)
          /\ last_error' = RecordError(e)
          /\ thrown' = <<e>>
          /\ log' = Append(log, CallEvent(ErrorKind(e)))
    /\ fpc' = "sleep"
    /\ UNCHANGED <<pc, req, results, ret, fetches, query, backend, attempt,
                   raw, raised>>
    /\ UNCHANGED notSearch

\* ddgs.text raises and the error is not taken for a rate limit: break
CallFails ==
    /\ fpc = "call"
    /\ \E e \in ErrorPool :
          /\ ~is_rate_limit(e)
          /\ last_error' = RecordError(e)
          /\ thrown' = <<e>>
          /\ log' = Append(log, CallEvent(ErrorKind(e)))
          /\ NextBackend(RecordError(e))
    /\ UNCHANGED <<pc, req, results, ret, fetches, query, raw>>
    /\ UNCHANGED notSearch

\* time.sleep(delay) ends: the next iteration of range(MAX_RETRIES), if any
Backoff ==
    /\ fpc = "sleep"
    /\ log' = Append(log, SleepEvent)
    /\ IF MoreAttempts(attempt)
       THEN /\ attempt' = attempt + 1
            /\ fpc' = "call"
            /\ UNCHANGED <<backend, raised>>
       ELSE NextBackend(last_error)
    /\ UNCHANGED <<pc, req, results, ret, fetches, query, last_error, thrown, raw>>
    /\ UNCHANGED notSearch

(***************************************************************************)
(* The orchestrator, search.                                               *)
(***************************************************************************)
\* mutant of ExceptException: a narrower except clause
ExceptException_ValueError(e) == e.type = "ValueError"

\* except Exception as e: DDGSearchError derives from Exception
ExceptException(e) == e.type \in {"Exception", "DDGSearchError"}

\* mutant of NeedsFallback: the fallback always runs
NeedsFallback_Always(res) == TRUE

\* if not results: the fallback is attempted
NeedsFallback(res) == res = <<>>

\* results = self.filter_results(raw, domains, strict_domain_filter)
StrictFilter(raw_results) ==
    filter_results(raw_results, domains, req.strict_domain_filter)

\* mutant of RelaxedFilter: the fallback filters with strict off
RelaxedFilter_Loose(raw_fallback) == filter_results(raw_fallback, domains, FALSE)

\* results = self.filter_results(raw_fallback, domains, strict=strict_domain_filter)
RelaxedFilter(raw_fallback) ==
    filter_results(raw_fallback, domains, req.strict_domain_filter)

\* what search knows of a fetch that ended
FetchRecord(res) ==
    [sited |-> query.sites # <<>>, returned |-> fpc = "returned",
     hits |-> fpc = "returned" /\ raw # <<>>, nres |-> Len(res)]

\* search is called: resolve, build, and the strict fetch is entered
Search ==
    /\ pc = "idle"
    /\ \E r \in Requests :
          /\ req' = r
          /\ BeginFetch(build_query(r.grade, r.subject,
                                    resolve_domains(r.grade, r.subject, <<>>)))
    /\ pc' = "strict"
    /\ UNCHANGED <<results, ret, fetches>>
    /\ UNCHANGED notSearch

\* an exception leaves search
Propagate ==
    /\ pc' = "done"
    /\ ret' = "raised"
    /\ fpc' = "off"
    /\ UNCHANGED <<results, fetches, query, backend, attempt, last_error, log,
                   thrown, raw, raised>>

\* return results
Return(res) ==
    /\ pc' = "done"
    /\ ret' = "returned"
    /\ results' = res
    /\ fpc' = "off"
    /\ UNCHANGED <<query, backend, attempt, last_error, log, thrown, raw, raised>>

\* the strict fetch ended: filter, or the except clause; then the fallback
\* fetch is entered if there are no results
StrictEnds ==
    /\ pc = "strict"
    /\ fpc \in {"returned", "raised"}
    /\ IF fpc = "raised" /\ ~ExceptException(raised[1])
       THEN Propagate
       ELSE LET res == IF fpc = "returned" THEN StrictFilter(raw) ELSE <<>>
            IN  /\ fetches' = Append(fetches, FetchRecord(res))
                /\ IF NeedsFallback(res)
                   THEN /\ pc' = "relaxed"
                        /\ results' = res
                        /\ BeginFetch(build_query(req.grade, req.subject, <<>>))
                        /\ UNCHANGED ret
                   ELSE Return(res)
    /\ UNCHANGED req
    /\ UNCHANGED notSearch

\* the fallback fetch ended: filter, or the except clause; return results
RelaxedEnds ==
    /\ pc = "relaxed"
    /\ fpc \in {"returned", "raised"}
    /\ IF fpc = "raised" /\ ~ExceptException(raised[1])
       THEN Propagate
       ELSE LET res == IF fpc = "returned" THEN RelaxedFilter(raw) ELSE results
            IN  /\ fetches' = Append(fetches, FetchRecord(res))
                /\ Return(res)
    /\ UNCHANGED req
    /\ UNCHANGED notSearch

Next ==
    \/ Search
    \/ CallReturns
    \/ CallRateLimited
    \/ CallFails
    \/ Backoff
    \/ StrictEnds
    \/ RelaxedEnds

Spec == Init /\ [][Next]_vars

(***************************************************************************)
(* crawler/discovery_router.py: discover_urls over the two scrapers.       *)
(***************************************************************************)
MethodGoogle == <<"g", "o", "o", "g", "l", "e">>
MethodGoogleCaps == <<"G", "o", "o", "g", "l", "e">>
MethodDdg == <<"d", "d", "g">>
MethodAuto == <<"a", "u", "t", "o">>

Methods == {MethodGoogle, MethodGoogleCaps, MethodDdg, MethodAuto}

\* the url lists a scraper may return
UrlLists == UNION {[1..n -> UrlPool] : n \in 0..MaxHits}

\* scrape_google_search and scrape_ddg_search start with page.goto(...): with
\* page None that raises, and the scraper re-raises
ScraperMayReturn(p) == p

\* what the page shows once the scraper navigates: the navigation fails, an
\* anti-bot challenge, or a result page; without a page there is nothing
PageKinds(p) == IF p THEN {"error", "captcha", "results"} ELSE {"nopage"}

\* the links a scraper extracts and keeps from such a page
LinksOf(k) == IF k = "results" THEN UrlLists ELSE {<<>>}

DdgCaptchaMessage == <<"D", "u", "c", "k", "D", "u", "c", "k", "G", "o", " ", "C", "A", "P", "T", "C", "H", "A", " ", "b", "l", "o", "c", "k", "e", "d", " ", "t", "h", "e", " ", "r", "e", "q", "u", "e", "s", "t">>

CaptchaWord == <<"C", "A", "P", "T", "C", "H", "A">>

\* mutant of Reraised: the inner except clause swallows every exception
Reraised_Never(message) == FALSE

\* scrape_ddg_search, the inner except clause: if "CAPTCHA" in str(e): raise
Reraised(message) == Contains(message, CaptchaWord)

\* how a scraper call ends on a page of kind k
ScraperOutcome(b, p, k) ==
    IF ~ScraperMayReturn(p) \/ k = "error" THEN "raised"
    ELSE IF k = "captcha"
         THEN IF b = "google" THEN "raised"
              ELSE IF Reraised(DdgCaptchaMessage) THEN "raised" ELSE "returned"
         ELSE "returned"

other_strategy(s) == IF s = "google" THEN "ddg" ELSE "google"

\* mutant of FallbackIsCalled: no fallback from DuckDuckGo to Google
FallbackIsCalled_FromGoogleOnly(primary, p) == primary = "google"

\* the except clause around the primary scraper: the fallback is the OTHER
\* method; Google needs a page
FallbackIsCalled(primary, p) == primary = "google" \/ p

\* discover_urls is called: the primary scraper is awaited
Discover ==
    /\ rpc = "idle"
    /\ \E m \in Methods, p \in BOOLEAN :
          /\ method' = Lower(m)
          /\ page' = p
          /\ primary_strategy' = IF Lower(m) = MethodGoogle THEN "google" ELSE "ddg"
    /\ rpc' = "primary"
    /\ urls' = <<>>
    /\ UNCHANGED <<scraped, shown, r_ret>>
    /\ UNCHANGED notRouter

\* the primary scraper returns its urls: return urls
PrimaryReturns ==
    /\ rpc = "primary"
    /\ \E k \in PageKinds(page) : \E us \in LinksOf(k) :
          /\ ScraperOutcome(primary_strategy, page, k) = "returned"
          /\ shown' = Append(shown, k)
          /\ urls' = us
          /\ scraped' = Append(scraped, [backend |-> primary_strategy,
                                         out |-> "returned", urls |-> us])
    /\ rpc' = "done"
    /\ r_ret' = "returned"
    /\ UNCHANGED <<method, page, primary_strategy>>
    /\ UNCHANGED notRouter

\* the primary scraper raises: the other scraper is awaited, or, without a
\* page for Google, urls stays empty and is returned
PrimaryRaises ==
    /\ rpc = "primary"
    /\ \E k \in PageKinds(page) :
          /\ ScraperOutcome(primary_strategy, page, k) = "raised"
          /\ shown' = Append(shown, k)
    /\ scraped' = Append(scraped, [backend |-> primary_strategy,
                                   out |-> "raised", urls |-> <<>>])
    /\ IF FallbackIsCalled(primary_strategy, page)
       THEN /\ rpc' = "fallback"
            /\ UNCHANGED r_ret
       ELSE /\ rpc' = "done"
            /\ r_ret' = "returned"
    /\ UNCHANGED <<method, page, primary_strategy, urls>>
    /\ UNCHANGED notRouter

\* the fallback scraper returns its urls: return urls
FallbackReturns ==
    /\ rpc = "fallback"
    /\ \E k \in PageKinds(page) : \E us \in LinksOf(k) :
          /\ ScraperOutcome(other_strategy(primary_strategy), page, k) = "returned"
          /\ shown' = Append(shown, k)
          /\ urls' = us
          /\ scraped' = Append(scraped, [backend |-> other_strategy(primary_strategy),
                                         out |-> "returned", urls |-> us])
    /\ rpc' = "done"
    /\ r_ret' = "returned"
    /\ UNCHANGED <<method, page, primary_strategy>>
    /\ UNCHANGED notRouter

\* the fallback scraper raises: logged, return urls (still empty)
FallbackRaises ==
    /\ rpc = "fallback"
    /\ \E k \in PageKinds(page) :
          /\ ScraperOutcome(other_strategy(primary_strategy), page, k) = "raised"
          /\ shown' = Append(shown, k)
    /\ scraped' = Append(scraped, [backend |-> other_strategy(primary_strategy),
                                   out |-> "raised", urls |-> <<>>])
    /\ rpc' = "done"
    /\ r_ret' = "returned"
    /\ UNCHANGED <<method, page, primary_strategy, urls>>
    /\ UNCHANGED notRouter

NextRouter ==
    \/ Discover
    \/ PrimaryReturns
    \/ PrimaryRaises
    \/ FallbackReturns
    \/ FallbackRaises

SpecRouter == Init /\ [][NextRouter]_vars

(***************************************************************************)
(* discovery/search_manager.py: SearchManager.search, and the async        *)
(* discover_urls of discovery/discovery_router.py that runs it in a thread.*)
(***************************************************************************)
\* search is entered through discover_urls: method.lower() and the dispatch
ManagerSearch ==
    /\ mpc = "idle"
    /\ \E m \in Methods, c \in BOOLEAN :
          /\ m_method' = Lower(m)
          /\ credentials' = c
          /\ mpc' = IF Lower(m) = MethodGoogle THEN "google" ELSE "ddg"
    /\ UNCHANGED <<queried, m_ret, d_ret>>
    /\ UNCHANGED notManager

\* _search_ddg returns its urls: method 'ddg' returns them; auto returns them
\* if there are any and falls back to Google otherwise
DdgReturns ==
    /\ mpc = "ddg"
    /\ \E us \in UrlLists :
          /\ queried' = Append(queried, [backend |-> "ddg", out |-> "returned",
                                         urls |-> us])
          /\ IF m_method = MethodDdg \/ us # <<>>
             THEN /\ m_ret' = <<"returned", us>>
                  /\ mpc' = "router"
             ELSE /\ mpc' = "google"
                  /\ UNCHANGED m_ret
    /\ UNCHANGED <<m_method, credentials, d_ret>>
    /\ UNCHANGED notManager

\* _search_ddg re-raises: method 'ddg' lets it out of search; auto falls back
\* to Google
DdgRaises ==
    /\ mpc = "ddg"
    /\ queried' = Append(queried, [backend |-> "ddg", out |-> "raised",
                                   urls |-> <<>>])
    /\ IF m_method = MethodDdg
       THEN /\ m_ret' = <<"raised">>
            /\ mpc' = "router"
       ELSE /\ mpc' = "google"
            /\ UNCHANGED m_ret
    /\ UNCHANGED <<m_method, credentials, d_ret>>
    /\ UNCHANGED notManager

\* _search_google without credentials: a warning, return []
GoogleSkipped ==
    /\ mpc = "google"
    /\ ~credentials
    /\ queried' = Append(queried, [backend |-> "google", out |-> "no credentials",
                                   urls |-> <<>>])
    /\ m_ret' = <<"returned", <<>>>>
    /\ mpc' = "router"
    /\ UNCHANGED <<m_method, credentials, d_ret>>
    /\ UNCHANGED notManager

\* _search_google: the Custom Search calls complete: return urls
GoogleReturns ==
    /\ mpc = "google"
    /\ credentials
    /\ \E us \in UrlLists :
          /\ queried' = Append(queried, [backend |-> "google", out |-> "returned",
                                         urls |-> us])
          /\ m_ret' = <<"returned", us>>
    /\ mpc' = "router"
    /\ UNCHANGED <<m_method, credentials, d_ret>>
    /\ UNCHANGED notManager

\* _search_google: a Custom Search call raises: logged, return []
GoogleRaises ==
    /\ mpc = "google"
    /\ credentials
    /\ queried' = Append(queried, [backend |-> "google", out |-> "raised",
                                   urls |-> <<>>])
    /\ m_ret' = <<"returned", <<>>>>
    /\ mpc' = "router"
    /\ UNCHANGED <<m_method, credentials, d_ret>>
    /\ UNCHANGED notManager

\* discover_urls: the awaited search returned, or its except clause: return []
RouterReturns ==
    /\ mpc = "router"
    /\ d_ret' = IF m_ret[1] = "returned" THEN m_ret ELSE <<"returned", <<>>>>
    /\ mpc' = "done"
    /\ UNCHANGED <<m_method, credentials, queried, m_ret>>
    /\ UNCHANGED notManager

NextManager ==
    \/ ManagerSearch
    \/ DdgReturns
    \/ DdgRaises
    \/ GoogleSkipped
    \/ GoogleReturns
    \/ GoogleRaises
    \/ RouterReturns

SpecManager == Init /\ [][NextManager]_vars

(***************************************************************************)
(* Step 4 on its own: filter_results applied to the raw hits a backend may *)
(* hand it, with the trusted domains of a grade 8 mathematics request.     *)
(***************************************************************************)
FilterHits == 3

UrlRoot == <<"h", "t", "t", "p", "s", ":", "/", "/", "c", "k", "1", "2", ".", "o", "r", "g", "/">>
UrlUnitCaps == <<"h", "t", "t", "p", "s", ":", "/", "/", "C", "K", "1", "2", ".", "o", "r", "g", "/", "u", "n", "i", "t">>
UrlOtherNext == <<"h", "t", "t", "p", "s", ":", "/", "/", "e", "x", ".", "i", "o", "/", "a", "?", "n", "e", "x", "t", "=", "/", "l", "o", "g", "i", "n">>
DomEx == <<"e", "x", ".", "i", "o">>

\* hrefs of raw hits; <<>> is a hit without url
FilterUrls == {<<>>, UrlRoot, UrlUnit, UrlUnitCaps, UrlIxl, UrlOther,
               UrlOtherNext, UrlLogin}

FilterRawLists ==
    UNION {[1..n -> {[url |-> u] : u \in FilterUrls}] : n \in 0..FilterHits}

BlockedEx == <<" ", "e", "x", ".", "i", "o", ",", " ">>

\* blockedDomains of a request body: absent, or a comma-separated string
BlockedStrings == {<<>>, BlockedEx}

\* s.strip() for the blanks of a domain list
RECURSIVE Strip(_)
Strip(s) ==
    IF s # <<>> /\ s[1] = " " THEN Strip(SubSeq(s, 2, Len(s)))
    ELSE IF s # <<>> /\ s[Len(s)] = " " THEN Strip(SubSeq(s, 1, Len(s) - 1))
    ELSE s

\* s.split(",")
RECURSIVE SplitCommas(_)
SplitCommas(s) ==
    LET i == Find(s, ",", 0)
    IN  IF i = -1 THEN <<s>>
        ELSE <<SubSeq(s, 1, i)>> \o SplitCommas(SubSeq(s, i + 2, Len(s)))

\* [d.strip() for d in s.split(",") if d.strip()] when s is set, else None
\* (None and [] are both <<>>)
ParseDomains(s) ==
    IF s = <<>> THEN <<>>
    ELSE LET parts == SplitCommas(s)
         IN  SelectSeq([i \in 1..Len(parts) |-> Strip(parts[i])],
                       LAMBDA d : d # <<>>)

\* blocked_domains as fetch_discovery_urls parses it from the request
BlockedLists == {ParseDomains(s) : s \in BlockedStrings}

FilterDomains == resolve_domains(8, SubjMath, <<>>)

\* filter_results(raw_results, trusted_domains, strict) is called
FilterCall ==
    /\ f_pc = "idle"
    /\ \E rs \in FilterRawLists, s \in BOOLEAN, bl \in BlockedLists :
          /\ f_raw' = rs
          /\ f_strict' = s
          /\ f_blocked' = bl
    /\ f_pc' = "call"
    /\ UNCHANGED f_out
    /\ UNCHANGED notFilter

\* the loop, the sort and return output
FilterReturns ==
    /\ f_pc = "call"
    /\ f_out' = filter_results(f_raw, FilterDomains, f_strict)
    /\ f_pc' = "done"
    /\ UNCHANGED <<f_raw, f_strict, f_blocked>>
    /\ UNCHANGED notFilter

NextFilter ==
    \/ FilterCall
    \/ FilterReturns

SpecFilter == Init /\ [][NextFilter]_vars

(***************************************************************************)
(* bridge.py: the event loop with POST /api/discovery/fetch                *)
(* (fetch_discovery_urls), and discovery/discovery_router.py: the async    *)
(* discover_urls, which awaits SearchManager.search on a worker thread.    *)
(***************************************************************************)
DigitValue == [c \in {"0", "1", "2", "3", "4", "5", "6", "7", "8", "9"} |->
                 CASE c = "0" -> 0 [] c = "1" -> 1 [] c = "2" -> 2 [] c = "3" -> 3
                   [] c = "4" -> 4 [] c = "5" -> 5 [] c = "6" -> 6 [] c = "7" -> 7
                   [] c = "8" -> 8 [] c = "9" -> 9]

\* str.isdigit
IsDigit(s) == s # <<>> /\ \A i \in 1..Len(s) : s[i] \in DOMAIN DigitValue

\* int(s) for a string of digits
RECURSIVE ToInt(_)
ToInt(s) ==
    IF s = <<>> THEN 0
    ELSE 10 * ToInt(SubSeq(s, 1, Len(s) - 1)) + DigitValue[s[Len(s)]]

\* int(req.grade) if req.grade.isdigit() else 8
GradeOf(g) == IF IsDigit(g) THEN ToInt(g) ELSE 8

\* the parameters of EduSearchPipeline.search
SearchParameters ==
    {"grade", "subject", "topic", "subtopic", "content_types", "extra_domains",
     "region", "safesearch", "max_results", "strict_domain_filter"}

\* the keyword arguments of the endpoint's call of search
EndpointCall(body) ==
    [grade |-> GradeOf(body.grade), subject |-> body.subject, topic |-> "topic",
     subtopic |-> <<>>, max_results |-> body.maxResults, region |-> "us-en",
     extra_domains |-> ParseDomains(body.trustedDomains),
     blocked_domains |-> ParseDomains(body.blockedDomains)]

\* Python binds keyword arguments to parameters: an unknown keyword is a
\* TypeError raised by the call, before the body of the function runs
Accepts(parameters, kwargs) == DOMAIN kwargs \subseteq parameters

\* well-formed bodies of POST /api/discovery/fetch
Bodies ==
    [grade : {<<"8">>, <<"x">>}, subject : {SubjMath},
     trustedDomains : {<<>>}, blockedDomains : BlockedStrings,
     maxResults : {1, 10}]

\* what search may return to the endpoint
EndpointResults == {<<>>, <<UrlUnit>>}

\* what SearchManager.search may return to discover_urls
ThreadResults == {<<>>, <<UrlUnit>>}

\* a request arrives: its coroutine is scheduled on the loop
RequestArrives(s) ==
    /\ c_state[s] = "none"
    /\ \/ \E b \in Bodies :
             /\ c_kind' = [c_kind EXCEPT ![s] = "endpoint"]
             /\ c_body' = [c_body EXCEPT ![s] = b]
       \/ \E m \in Methods :
             /\ c_kind' = [c_kind EXCEPT ![s] = "router"]
             /\ c_body' = [c_body EXCEPT ![s] = m]
    /\ c_state' = [c_state EXCEPT ![s] = "pending"]
    /\ UNCHANGED <<c_thread, c_result>>
    /\ UNCHANGED notServer

\* fetch_discovery_urls runs on the loop up to its return: it has no await.
\* pipeline.search(...) is called inline; a call search does not accept
\* raises, and except Exception turns that into HTTPException(500)
FetchDiscoveryUrls(s) ==
    /\ c_state[s] = "pending"
    /\ c_kind[s] = "endpoint"
    /\ c_thread' = [c_thread EXCEPT ![s] = "loop"]
    /\ IF Accepts(SearchParameters, EndpointCall(c_body[s]))
       THEN \E rs \in EndpointResults :
               c_result' = [c_result EXCEPT ![s] =
                   [status |-> 200, success |-> TRUE, results |-> rs]]
       ELSE c_result' = [c_result EXCEPT ![s] =
                   [status |-> 500, detail |-> "TypeError"]]
    /\ c_state' = [c_state EXCEPT ![s] = "responded"]
    /\ UNCHANGED <<c_kind, c_body>>
    /\ UNCHANGED notServer

\* discover_urls runs on the loop up to await asyncio.to_thread(search, ...):
\* search starts on a worker thread and the loop is free
RouterAwaitsThread(s) ==
    /\ c_state[s] = "pending"
    /\ c_kind[s] = "router"
    /\ c_thread' = [c_thread EXCEPT ![s] = "worker"]
    /\ c_state' = [c_state EXCEPT ![s] = "offloaded"]
    /\ UNCHANGED <<c_kind, c_body, c_result>>
    /\ UNCHANGED notServer

\* the worker thread: search returns
ThreadReturns(s) ==
    /\ c_state[s] = "offloaded"
    /\ \E us \in ThreadResults :
          c_result' = [c_result EXCEPT ![s] = <<"returned", us>>]
    /\ c_state' = [c_state EXCEPT ![s] = "resolved"]
    /\ UNCHANGED <<c_kind, c_body, c_thread>>
    /\ UNCHANGED notServer

\* the worker thread: search raises
ThreadRaises(s) ==
    /\ c_state[s] = "offloaded"
    /\ c_result' = [c_result EXCEPT ![s] = <<"raised">>]
    /\ c_state' = [c_state EXCEPT ![s] = "resolved"]
    /\ UNCHANGED <<c_kind, c_body, c_thread>>
    /\ UNCHANGED notServer

\* the loop resumes discover_urls: return urls, or [] from except Exception
RouterResumes(s) ==
    /\ c_state[s] = "resolved"
    /\ c_result' = [c_result EXCEPT ![s] =
          IF c_result[s][1] = "returned" THEN c_result[s] ELSE <<"returned", <<>>>>]
    /\ c_state' = [c_state EXCEPT ![s] = "responded"]
    /\ UNCHANGED <<c_kind, c_body, c_thread>>
    /\ UNCHANGED notServer

NextServer ==
    \E s \in Slots :
        \/ RequestArrives(s)
        \/ FetchDiscoveryUrls(s)
        \/ RouterAwaitsThread(s)
        \/ ThreadReturns(s)
        \/ ThreadRaises(s)
        \/ RouterResumes(s)

SpecServer == Init /\ [][NextServer]_vars

(***************************************************************************)
(* Step 1 on its own: resolve_domains called again and again on one        *)
(* pipeline object.                                                        *)
(***************************************************************************)
SubjScience == <<"S", "c", "i", "e", "n", "c", "e">>
DomCk12 == <<"c", "k", "1", "2", ".", "o", "r", "g">>
DomMy == <<"m", "y", ".", "o", "r", "g">>
SubjSciMath == <<"S", "c", "i", "e", "n", "c", "e", " ", "M", "a", "t", "h">>

\* the arguments of resolve_domains: a grade of each band, subjects with and
\* without domains of their own, extra domains with repeated entries
ResolveArgs ==
    [grade : {3, 8, 11},
     subject : {SubjMath, SubjScience, SubjArt, SubjSciMath, <<>>},
     extra_domains : {<<>>, <<DomCk12, DomMy, DomMy>>}]

\* domains = list(self.core_domains): a copy, which the extend calls change
\* and self.core_domains does not share
CoreAfterCall(core, merged) == core

resolve_domains_call ==
    /\ \E a \in ResolveArgs :
          LET merged == MergedDomains(core_domains, a.grade, a.subject,
                                      a.extra_domains)
          IN  /\ d_args' = a
              /\ d_cat' = merged
              /\ d_out' = Dedup(merged)
              /\ core_domains' = CoreAfterCall(core_domains, merged)
    /\ d_prev' = IF d_pc = "done" THEN <<[args |-> d_args, out |-> d_out]>>
                 ELSE d_prev
    /\ d_pc' = "done"
    /\ UNCHANGED notResolve

NextResolve == resolve_domains_call

SpecResolve == Init /\ [][NextResolve]_vars

(***************************************************************************)
(* Properties of search and fetch.                                         *)
(***************************************************************************)
Last(s) == s[Len(s)]

\* the fetch calls search has entered so far
FetchesBegun == Len(fetches) + (IF fpc = "off" THEN 0 ELSE 1)

CallsOn(b) == {i \in 1..Len(log) : log[i].ev = "call" /\ log[i].backend = b}

\* backend b was given up within the first n events: a hard error, or the
\* third rate-limited attempt
AbandonedBy(b, n) ==
    \E i \in 1..n :
        /\ log[i].ev = "call"
        /\ log[i].backend = b
        /\ \/ log[i].out = "error"
           \/ log[i].out = "ratelimit" /\ log[i].attempt = 2

AllAbandoned == \A b \in {"auto", "lite", "html"} : AbandonedBy(b, Len(log))

Follower(b) == IF b = "auto" THEN "lite" ELSE IF b = "lite" THEN "html" ELSE "none"

\* C1: search never propagates a search failure: whatever the backends do in
\* the strict and in the relaxed phase it returns a list; a strict fetch that
\* raised counts as an empty strict result and the relaxed fetch still runs.
C1_SearchNeverRaises ==
    /\ ret # "raised"
    /\ pc = "done" => ret = "returned"
    /\ (fetches # <<>> /\ ~fetches[1].returned) =>
          /\ fetches[1].nres = 0
          /\ pc \in {"relaxed", "done"}
          /\ pc = "done" => Len(fetches) = 2 /\ ~fetches[2].sited

C1_Witness ==
    /\ pc = "done"
    /\ ret = "returned"
    /\ Len(fetches) = 2
    /\ ~fetches[1].returned
    /\ ~fetches[2].returned
    /\ results = <<>>

\* C2: the relaxed fetch is entered if and only if the strict attempt ended
\* with no results (fetch failed, no raw hits, or every hit filtered out);
\* with a strict result the strict results are returned as they are and no
\* second fetch is made; a search makes at most two fetch calls.
C2_RelaxedIffStrictEmpty ==
    /\ FetchesBegun <= 2
    /\ FetchesBegun = 2 <=> (fetches # <<>> /\ fetches[1].nres = 0)
    /\ fetches # <<>> => fetches[1].sited
    /\ Len(fetches) = 2 => ~fetches[2].sited
    /\ pc = "relaxed" => query.sites = <<>>
    /\ (pc = "done" /\ Len(fetches) = 1) =>
          /\ results # <<>>
          /\ Len(results) = fetches[1].nres
          /\ results = filter_results(raw, domains, req.strict_domain_filter)

C2_Witness ==
    /\ pc = "done"
    /\ Len(fetches) = 2
    /\ fetches[1].returned
    /\ fetches[1].hits
    /\ fetches[1].nres = 0
    /\ fetches[2].returned

\* C3: with strict on, every result of search, from the strict phase or from
\* the relaxed fallback, is trusted with respect to the one resolved domain
\* list, and raw hits on untrusted domains only give an empty list.
C3_StrictOnlyTrusted ==
    req.strict_domain_filter =>
        /\ \A i \in 1..Len(results) :
              /\ results[i].is_trusted
              /\ IsTrusted(DomainOf(results[i].url), domains)
        /\ (/\ pc = "done"
            /\ raised = <<>>
            /\ \A i \in 1..Len(raw) : ~IsTrusted(DomainOf(raw[i].url), domains))
              => results = <<>>

C3_Witness ==
    /\ req.strict_domain_filter
    /\ pc = "done"
    /\ Len(fetches) = 2
    /\ results # <<>>
    /\ \E i \in 1..Len(raw) : ~IsTrusted(DomainOf(raw[i].url), domains)

\* C4: fetch returns a list only when a backend call completed without an
\* exception; when every backend has been abandoned it raises DDGSearchError
\* carrying the last underlying error and returns no list.
C4_FetchRaisesWhenExhausted ==
    /\ fpc = "returned" =>
          /\ log # <<>>
          /\ Last(log).ev = "call"
          /\ Last(log).out = "ok"
          /\ raised = <<>>
    /\ fpc = "raised" =>
          /\ AllAbandoned
          /\ \A i \in 1..Len(log) : log[i].out # "ok"
    /\ (AllAbandoned /\ fpc # "sleep") =>
          /\ fpc \in {"raised", "off"}
          /\ raw = <<>>
          /\ thrown # <<>>
          /\ raised = <<[type |-> "DDGSearchError",
                         msg |-> DDGSearchErrorPrefix \o thrown[1]]>>

C4_Witness ==
    /\ fpc = "raised"
    /\ thrown = <<ErrTimeout>>
    /\ \E i \in 1..Len(log) : log[i].out = "ratelimit"

\* C5: a rate-limit error is followed by a backoff sleep and another attempt
\* on the same backend, up to 3 attempts; after the third rate-limited
\* attempt the next backend is tried; no backend is called more than 3 times.
C5_RateLimitRetriesBounded ==
    /\ \A b \in {"auto", "lite", "html"} : Cardinality(CallsOn(b)) <= 3
    /\ \A i \in 1..Len(log) :
          (log[i].ev = "call" /\ log[i].out = "ratelimit") =>
             /\ i = Len(log) => fpc = "sleep"
             /\ i < Len(log) =>
                   log[i + 1] = [ev |-> "sleep", backend |-> log[i].backend,
                                 attempt |-> log[i].attempt, out |-> "-"]
             /\ i + 1 = Len(log) =>
                   IF log[i].attempt < 2
                   THEN /\ fpc = "call"
                        /\ backends[backend] = log[i].backend
                        /\ attempt = log[i].attempt + 1
                   ELSE IF log[i].backend = "html"
                   THEN fpc \in {"raised", "off"}
                   ELSE /\ fpc = "call"
                        /\ backends[backend] = Follower(log[i].backend)
                        /\ attempt = 0
             /\ i + 2 <= Len(log) =>
                   /\ log[i + 2].ev = "call"
                   /\ IF log[i].attempt < 2
                      THEN /\ log[i + 2].backend = log[i].backend
                           /\ log[i + 2].attempt = log[i].attempt + 1
                      ELSE /\ log[i + 2].backend = Follower(log[i].backend)
                           /\ log[i + 2].attempt = 0

C5_Witness ==
    /\ Len(log) = 7
    /\ \A i \in {1, 3, 5} : log[i].backend = "auto" /\ log[i].out = "ratelimit"
    /\ log[7].ev = "call"
    /\ log[7].backend = "lite"

\* C6: an error that is no rate-limit signal makes the backend be abandoned
\* at once: it is not called again in this fetch, no sleep is taken, and the
\* next backend is attempted.
C6_HardErrorAbandonsAtOnce ==
    \A i \in 1..Len(log) :
        (log[i].ev = "call" /\ log[i].out = "error") =>
           /\ \A j \in (i + 1)..Len(log) : log[j].backend # log[i].backend
           /\ i < Len(log) =>
                 /\ log[i + 1].ev = "call"
                 /\ log[i + 1].backend = Follower(log[i].backend)
                 /\ log[i + 1].attempt = 0
           /\ i = Len(log) =>
                 IF log[i].backend = "html"
                 THEN fpc \in {"raised", "off"}
                 ELSE /\ fpc = "call"
                      /\ backends[backend] = Follower(log[i].backend)
                      /\ attempt = 0

C6_Witness ==
    /\ Len(log) = 2
    /\ log[1] = [ev |-> "call", backend |-> "auto", attempt |-> 0, out |-> "error"]
    /\ log[2].ev = "call"
    /\ log[2].backend = "lite"

\* C7: the backends are tried in the order auto, lite, html; a later backend
\* is called only after every earlier one was abandoned; the first call that
\* succeeds ends the fetch, also when it yields zero hits.
C7_BackendPriorityOrder ==
    /\ log # <<>> => log[1].backend = "auto"
    /\ \A i \in 1..Len(log) :
          /\ i < Len(log) =>
                log[i + 1].backend \in {log[i].backend, Follower(log[i].backend)}
          /\ (i > 1 /\ log[i].backend # log[i - 1].backend) =>
                AbandonedBy(log[i - 1].backend, i - 1)
          /\ log[i].out = "ok" =>
                /\ i = Len(log)
                /\ fpc \in {"returned", "off"}
    /\ fpc = "call" => (log = <<>> <=> backends[backend] = "auto" /\ attempt = 0)

C7_Witness ==
    /\ fpc = "returned"
    /\ raw = <<>>
    /\ Last(log).backend = "lite"
    /\ Last(log).out = "ok"

(***************************************************************************)
(* Properties of the routers.                                              *)
(***************************************************************************)
\* C8: crawler discover_urls calls the requested backend first (google for
\* method 'google', DuckDuckGo otherwise) and the other one only after the
\* first raised, never after an empty list; when the first fails and the
\* other succeeds the other's urls are returned, each backend called once;
\* when both fail an empty list is returned and nothing is raised.
C8_FallbackOnlyOnFailure ==
    /\ r_ret # "raised"
    /\ Len(scraped) <= 2
    /\ scraped # <<>> =>
          scraped[1].backend = (IF method = MethodGoogle THEN "google" ELSE "ddg")
    /\ Len(scraped) = 2 =>
          /\ scraped[1].out = "raised"
          /\ {scraped[1].backend, scraped[2].backend} = {"google", "ddg"}
    /\ (scraped # <<>> /\ scraped[1].out = "returned") =>
          /\ rpc = "done"
          /\ Len(scraped) = 1
          /\ urls = scraped[1].urls
    /\ rpc = "done" =>
          /\ r_ret = "returned"
          /\ (scraped[1].out = "raised" /\ page) => Len(scraped) = 2
          /\ (Len(scraped) = 2 /\ scraped[2].out = "returned") =>
                urls = scraped[2].urls
          /\ (\A i \in 1..Len(scraped) : scraped[i].out = "raised") => urls = <<>>

C8_Witness ==
    /\ rpc = "done"
    /\ method = MethodGoogle
    /\ Len(scraped) = 2
    /\ scraped[1] = [backend |-> "google", out |-> "raised", urls |-> <<>>]
    /\ scraped[2].backend = "ddg"
    /\ scraped[2].out = "returned"
    /\ urls = <<UrlUnit>>

\* C9: SearchManager.search and the discover_urls built on it return an empty
\* list only when a backend was queried successfully and found nothing; when
\* every backend tried failed, the failure surfaces as an error.
C9_EmptyOnlyWhenSearched ==
    /\ m_ret = <<"returned", <<>>>> =>
          \E i \in 1..Len(queried) : queried[i].out = "returned"
    /\ d_ret = <<"returned", <<>>>> =>
          \E i \in 1..Len(queried) : queried[i].out = "returned"

\* C10: filter_results never returns more than 15 results, whatever the number
\* of raw hits and whatever max_results was requested; hence search never
\* returns more than 15 results.
C10_AtMostFifteen ==
    /\ Len(results) <= 15
    /\ \A i \in 1..Len(fetches) : fetches[i].nres <= 15

(***************************************************************************)
(* Properties of filter_results.                                           *)
(***************************************************************************)
IsStrictPrefix(a, b) == Len(a) < Len(b) /\ SubSeq(b, 1, Len(a)) = a

\* the normalized url with its trailing slash enforced
SlashNorm(url) == Append(NormUrl(url), "/")

OutUrls == {f_out[i].url : i \in 1..Len(f_out)}

\* raw hit j passes every step of the filter other than deduplication
Passes(j) ==
    /\ f_raw[j].url # <<>>
    /\ ~IsExcluded(f_raw[j].url)
    /\ f_strict => IsTrusted(DomainOf(f_raw[j].url), FilterDomains)

\* the url without query string and fragment
StripQuery(url) == SplitFirst(SplitFirst(url, "?"), "#")

\* the path of an absolute url
UrlPath(url) ==
    LET s == StripQuery(url)
        k == Find(s, "/", Find(s, ":", 0) + 3)
    IN  IF k = -1 THEN <<>> ELSE SubSeq(s, k + 1, Len(s))

\* the host lower-cased, without a leading "www."
HostDomain(url) ==
    LET h == Lower(Netloc(url))
    IN  IF Len(h) >= 4 /\ SubSeq(h, 1, 4) = WwwDot THEN SubSeq(h, 5, Len(h)) ELSE h

\* the first position of a url in the raw hits
RawPos(u) == CHOOSE i \in 1..Len(f_raw) :
                 /\ f_raw[i].url = u
                 /\ \A j \in 1..(i - 1) : f_raw[j].url # u

\* C11: the output of filter_results never contains both a url and a longer
\* url that extends it as a path prefix (normalized, trailing slash enforced):
\* the parent is dropped and the child kept.
C11_NoParentWithChild ==
    f_pc = "done" =>
        \A i, j \in 1..Len(f_out) :
            ~IsStrictPrefix(SlashNorm(f_out[i].url), SlashNorm(f_out[j].url))

\* C12: no two results have the same url after query string and fragment are
\* stripped, and a hit that passes every other step is left out as a duplicate
\* only if an earlier hit with the same normalized url was itself emitted.
C12_FirstEmittedWins ==
    f_pc = "done" =>
        /\ \A i, j \in 1..Len(f_out) :
              StripQuery(f_out[i].url) = StripQuery(f_out[j].url) => i = j
        /\ \A j \in 1..Len(f_raw) :
              Passes(j) =>
                  \E i \in 1..j :
                      /\ NormUrl(f_raw[i].url) = NormUrl(f_raw[j].url)
                      /\ Passes(i)
                      /\ f_raw[i].url \in OutUrls

\* C13: no emitted result has a domain or lower-cased url containing a blocked
\* pattern (the caller-supplied blocked domains included), and none has a path
\* containing an excluded fragment.
C13_NoBlockedOrExcluded ==
    f_pc = "done" =>
        \A i \in 1..Len(f_out) :
            /\ \A b \in 1..Len(f_blocked) :
                  /\ ~Contains(f_out[i].domain, f_blocked[b])
                  /\ ~Contains(Lower(f_out[i].url), f_blocked[b])
            /\ \A e \in 1..Len(URL_EXCLUDE_PATTERNS) :
                  ~Contains(UrlPath(f_out[i].url), URL_EXCLUDE_PATTERNS[e])

\* C14: every emitted result's domain is its host lower-cased without a
\* leading 'www.', and is_trusted holds iff that domain contains a trusted
\* domain; hosts that differ in case or a leading 'www.' only get the same
\* domain and is_trusted.
C14_DomainAndTrust ==
    f_pc = "done" =>
        /\ \A i \in 1..Len(f_out) :
              /\ f_out[i].domain = HostDomain(f_out[i].url)
              /\ f_out[i].is_trusted <=> IsTrusted(HostDomain(f_out[i].url), FilterDomains)
        /\ \A i, j \in 1..Len(f_out) :
              HostDomain(f_out[i].url) = HostDomain(f_out[j].url) =>
                  /\ f_out[i].domain = f_out[j].domain
                  /\ f_out[i].is_trusted = f_out[j].is_trusted

\* C15: in the output every trusted result precedes every untrusted one, the
\* results of each group keep the order they had in the raw hits, and with
\* strict = false every first non-excluded hit survives, trusted or not.
C15_StablePartition ==
    f_pc = "done" =>
        /\ \A i, j \in 1..Len(f_out) :
              i < j =>
                  /\ f_out[i].is_trusted \/ ~f_out[j].is_trusted
                  /\ f_out[i].is_trusted = f_out[j].is_trusted =>
                        RawPos(f_out[i].url) < RawPos(f_out[j].url)
        /\ ~f_strict =>
              \A j \in 1..Len(f_raw) :
                  (/\ Passes(j)
                   /\ \A i \in 1..(j - 1) :
                         NormUrl(f_raw[i].url) # NormUrl(f_raw[j].url))
                      => f_raw[j].url \in OutUrls

C15_Witness ==
    /\ f_pc = "done"
    /\ ~f_strict
    /\ f_raw = <<[url |-> UrlOther], [url |-> UrlRoot], [url |-> UrlUnit]>>
    /\ Len(f_out) = 3
    /\ f_out[1].url = UrlRoot /\ f_out[1].is_trusted
    /\ f_out[2].url = UrlUnit /\ f_out[2].is_trusted
    /\ f_out[3].url = UrlOther /\ ~f_out[3].is_trusted

(***************************************************************************)
(* Properties of the callers of search.                                    *)
(***************************************************************************)
\* C17: a request with a non-positive max_results makes search raise a
\* configuration error at once: no backend is called, nothing is retried and
\* the error does not become an empty result list.
C17_InvalidRequestRaises ==
    (pc # "idle" /\ req.max_results <= 0) =>
        /\ fetches = <<>>
        /\ fpc = "off"
        /\ log = <<>>
        /\ pc = "done"
        /\ ret = "raised"

\* C16: a search called from an event-driven caller (the async discover_urls,
\* the async endpoint) runs on a worker thread and is awaited; it never runs
\* inline on the event loop.
C16_SearchOffTheLoop ==
    \A s \in Slots : c_thread[s] # "loop"

\* C18: POST /api/discovery/fetch with a well-formed body answers with status
\* 200, success = true and a list of results: search accepts the endpoint's
\* call and no backend outcome becomes an HTTP 500.
C18_EndpointAnswers200 ==
    \A s \in Slots :
        (c_kind[s] = "endpoint" /\ c_state[s] = "responded") =>
            /\ c_result[s].status = 200
            /\ c_result[s].success
            /\ c_result[s].results \in EndpointResults

FirstPos(s, d) == CHOOSE i \in 1..Len(s) :
                      s[i] = d /\ \A j \in 1..(i - 1) : s[j] # d

\* C20: resolve_domains returns a list without duplicates that keeps the
\* first-occurrence order of core, subject, reference and extra domains
\* concatenated; identical inputs give the identical list, and the configured
\* core list is left unchanged.
C20_ResolveDeduplicates ==
    d_pc = "done" =>
        /\ \A i, j \in 1..Len(d_out) : d_out[i] = d_out[j] => i = j
        /\ {d_out[i] : i \in 1..Len(d_out)} = {d_cat[i] : i \in 1..Len(d_cat)}
        /\ \A i, j \in 1..Len(d_out) :
              i < j => FirstPos(d_cat, d_out[i]) < FirstPos(d_cat, d_out[j])
        /\ SubSeq(d_cat, 1, Len(TRUSTED_DOMAINS_CORE)) = TRUSTED_DOMAINS_CORE
        /\ SubSeq(d_cat, Len(d_cat) - Len(d_args.extra_domains) + 1, Len(d_cat))
              = d_args.extra_domains
        /\ (d_prev # <<>> /\ d_prev[1].args = d_args) => d_prev[1].out = d_out
        /\ core_domains = TRUSTED_DOMAINS_CORE

C20_Witness ==
    /\ d_pc = "done"
    /\ d_args = [grade |-> 8, subject |-> SubjScience,
                 extra_domains |-> <<DomCk12, DomMy, DomMy>>]
    /\ d_prev # <<>>
    /\ d_prev[1].args = d_args
    /\ Len(d_cat) = Len(d_out) + 4
    /\ d_out[Len(d_out)] = DomMy

(***************************************************************************)
(* Properties of the retry loops of fetch.                                 *)
(***************************************************************************)
\* the backend calls of the fetch in progress
Calls == {i \in 1..Len(log) : log[i].ev = "call"}

\* how far the two loops of fetch have come: it grows with every step
Rank ==
    2 * ((backend - 1) * MAX_RETRIES + attempt) + (IF fpc = "sleep" THEN 1 ELSE 0)

\* a step of a fetch in progress ends it or takes its loops further
RankGrows ==
    fpc \in {"call", "sleep"} =>
        \/ fpc' \in {"returned", "raised"}
        \/ fpc' \in {"call", "sleep"} /\ Rank' > Rank

\* C29: fetch always terminates: every step takes its loops further, it ends
\* in a return or in DDGSearchError after at most 9 backend calls, and search
\* ends after at most 18 backend calls (two fetches).
C29_FetchTerminates ==
    /\ [](/\ Cardinality(Calls) <= 9
          /\ FetchesBegun <= 2
          /\ 9 * (IF FetchesBegun = 0 THEN 0 ELSE FetchesBegun - 1)
                + Cardinality(Calls) <= 18
          /\ fpc \in {"call", "sleep"} => Rank < 18
          /\ fpc = "raised" => raised[1].type = "DDGSearchError")
    /\ [][RankGrows]_vars

C29_Witness ==
    /\ pc = "done"
    /\ Len(fetches) = 2
    /\ raised # <<>>
    /\ Cardinality(Calls) = 9
    /\ Len(log) = 18

\* C30: every backoff sleep of fetch is followed by another attempt on the
\* same backend: no sleep is taken after the last permitted attempt on a
\* backend, before the next backend, or before DDGSearchError is raised.
C30_SleepThenRetry ==
    /\ fpc = "sleep" => attempt + 1 < MAX_RETRIES
    /\ \A i \in 1..Len(log) :
          log[i].ev = "sleep" =>
             /\ i < Len(log) =>
                   /\ log[i + 1].ev = "call"
                   /\ log[i + 1].backend = log[i].backend
             /\ i = Len(log) =>
                   /\ fpc = "call"
                   /\ backends[backend] = log[i].backend

(***************************************************************************)
(* Properties of the subject match of resolve_domains.                     *)
(***************************************************************************)
\* the subject matches the key of entry i of the band's map
KeyHit(band_map, i, subject) ==
    \/ Contains(Lower(subject), band_map[i].key)
    \/ Contains(band_map[i].key, Lower(subject))

\* the reference list of a band's map
ReferenceOf(band_map) ==
    LET refs == {i \in 1..Len(band_map) : band_map[i].key = KeyReference}
    IN  IF refs = {} THEN <<>> ELSE band_map[CHOOSE i \in refs : TRUE].doms

\* C28: resolve_domains appends the domain list of at most one subject key,
\* the first key in map order that contains the lower-cased subject or is
\* contained in it; when no key matches the merged list is the core domains,
\* the band's reference list and the extra domains, and the call returns.
C28_FirstMatchingKeyOnly ==
    d_pc = "done" =>
        LET band_map == TRUSTED_DOMAINS_BY_BAND[_get_grade_band(d_args.grade)]
        IN  \E k \in 0..Len(band_map) :
               /\ k = 0 => \A j \in 1..Len(band_map) :
                                ~KeyHit(band_map, j, d_args.subject)
               /\ k > 0 => /\ KeyHit(band_map, k, d_args.subject)
                           /\ \A j \in 1..(k - 1) :
                                 ~KeyHit(band_map, j, d_args.subject)
               /\ d_cat = TRUSTED_DOMAINS_CORE
                             \o (IF k = 0 THEN <<>> ELSE band_map[k].doms)
                             \o ReferenceOf(band_map)
                             \o d_args.extra_domains

\* a subject that matches two keys of its band: only the first key's list
\* is appended
C28_Witness ==
    /\ d_pc = "done"
    /\ d_args.grade = 8
    /\ d_args.subject = SubjSciMath
    /\ Cardinality({j \in 1..Len(TRUSTED_DOMAINS_BY_BAND["5-8"]) :
                       KeyHit(TRUSTED_DOMAINS_BY_BAND["5-8"], j, SubjSciMath)}) = 2
    /\ Len(d_cat) = Len(TRUSTED_DOMAINS_CORE) + 3 + 2
                       + Len(d_args.extra_domains)

(***************************************************************************)
(* Step 2, query construction as text.  A grade argument is an int         *)
(* [int |-> TRUE, n] or a str [int |-> FALSE, s].                          *)
(***************************************************************************)
CONTENT_TYPE_KEYWORDS ==
    "concept_explainer" :> << <<"+", "t", "u", "t", "o", "r", "i", "a", "l">>,
          <<"+", "l", "e", "s", "s", "o", "n">>,
          <<"+", "e", "x", "p", "l", "a", "i", "n", "e", "d">>,
          <<"+", "i", "n", "t", "r", "o", "d", "u", "c", "t", "i", "o", "n">> >>
    @@ "reasoning" :> << <<"+", "d", "e", "r", "i", "v", "a", "t", "i", "o", "n">>,
          <<"+", "p", "r", "o", "o", "f">>,
          <<"+", "w", "o", "r", "k", "e", "d", "-", "e", "x", "a", "m", "p", "l", "e">>,
          <<"+", "s", "t", "e", "p", "-", "b", "y", "-", "s", "t", "e", "p">> >>
    @@ "material_visual" :> << <<"+", "f", "l", "o", "w", "c", "h", "a", "r", "t">>,
          <<"+", "d", "i", "a", "g", "r", "a", "m">>,
          <<"+", "i", "n", "f", "o", "g", "r", "a", "p", "h", "i", "c">>,
          <<"+", "c", "h", "a", "r", "t">> >>
    @@ "material_equation" :> << <<"+", "e", "q", "u", "a", "t", "i", "o", "n">>,
          <<"+", "f", "o", "r", "m", "u", "l", "a">>,
          <<"+", "c", "a", "l", "c", "u", "l", "a", "t", "i", "o", "n">> >>
    @@ "practice" :> << <<"+", "w", "o", "r", "k", "s", "h", "e", "e", "t">>,
          <<"+", "e", "x", "e", "r", "c", "i", "s", "e">>,
          <<"+", "q", "u", "i", "z">>,
          <<"+", "p", "r", "a", "c", "t", "i", "c", "e", "-", "p", "r", "o", "b", "l", "e", "m", "s">> >>
    @@ "video" :> << <<"+", "v", "i", "d", "e", "o">>,
          <<"+", "l", "e", "c", "t", "u", "r", "e">> >>
    @@ "simulation" :> << <<"+", "s", "i", "m", "u", "l", "a", "t", "i", "o", "n">>,
          <<"+", "i", "n", "t", "e", "r", "a", "c", "t", "i", "v", "e">>,
          <<"+", "v", "i", "r", "t", "u", "a", "l", "-", "l", "a", "b">> >>
    @@ "printable" :> << <<"f", "i", "l", "e", "t", "y", "p", "e", ":", "p", "d", "f">>,
          <<"+", "w", "o", "r", "k", "s", "h", "e", "e", "t">>,
          <<"+", "p", "r", "i", "n", "t", "a", "b", "l", "e">> >>

GRADE_EXCLUSIONS ==
    "K-4" :> <<"-", "c", "o", "l", "l", "e", "g", "e", " ", "-", "u", "n", "i", "v", "e", "r", "s", "i", "t", "y", " ", "-", "\"", "h", "i", "g", "h", " ", "s", "c", "h", "o", "o", "l", "\"", " ", "-", "\"", "A", "P", " ", "\"", " ", "-", "c", "a", "l", "c", "u", "l", "u", "s", " ", "-", "t", "h", "e", "s", "i", "s">>
    @@ "5-8" :> <<"-", "c", "o", "l", "l", "e", "g", "e", " ", "-", "u", "n", "i", "v", "e", "r", "s", "i", "t", "y", " ", "-", "\"", "A", "P", " ", "\"", " ", "-", "t", "h", "e", "s", "i", "s", " ", "-", "d", "o", "c", "t", "o", "r", "a", "l">>
    @@ "9-12" :> <<"-", "\"", "e", "l", "e", "m", "e", "n", "t", "a", "r", "y", " ", "s", "c", "h", "o", "o", "l", "\"", " ", "-", "k", "i", "n", "d", "e", "r", "g", "a", "r", "t", "e", "n", " ", "-", "\"", "g", "r", "a", "d", "e", " ", "3", "\"", " ", "-", "\"", "g", "r", "a", "d", "e", " ", "2", "\"">>

DecimalDigits == <<"0", "1", "2", "3", "4", "5", "6", "7", "8", "9">>

\* str(n) for an int
RECURSIVE IntToStr(_)
IntToStr(n) ==
    IF n < 0 THEN <<"-">> \o IntToStr(0 - n)
    ELSE IF n < 10 THEN <<DecimalDigits[n + 1]>>
    ELSE IntToStr(n \div 10) \o <<DecimalDigits[(n % 10) + 1]>>

\* f"{grade}"
FormatGrade(grade) == IF grade.int THEN IntToStr(grade.n) ELSE grade.s

\* int(grade): an int is itself; a str is stripped and read as an optional
\* sign and decimal digits, and anything else raises ValueError
IntOf(grade) ==
    IF grade.int THEN [type |-> "int", n |-> grade.n]
    ELSE LET s    == Strip(grade.s)
             sign == s # <<>> /\ s[1] \in {"+", "-"}
             body == IF sign THEN SubSeq(s, 2, Len(s)) ELSE s
         IN  IF IsDigit(body)
             THEN [type |-> "int",
                   n |-> IF sign /\ s[1] = "-" THEN 0 - ToInt(body)
                         ELSE ToInt(body)]
             ELSE [type |-> "ValueError", n |-> 0]

\* mutant of ExceptValueError: the clause catches nothing
ExceptValueError_Nothing(type) == FALSE

\* except ValueError
ExceptValueError(type) == type = "ValueError"

\* try: grade_int = int(grade) / except ValueError: grade_int = 8
grade_int(grade) ==
    LET r == IntOf(grade)
    IN  IF r.type = "int" THEN r
        ELSE IF ExceptValueError(r.type) THEN [type |-> "int", n |-> 8]
        ELSE r

\* sep.join(parts)
RECURSIVE Join(_, _)
Join(sep, parts) ==
    IF parts = <<>> THEN <<>>
    ELSE IF Len(parts) = 1 THEN parts[1]
    ELSE parts[1] \o sep \o Join(sep, SubSeq(parts, 2, Len(parts)))

SitePrefix == <<"s", "i", "t", "e", ":">>
OrSeparator == <<" ", "O", "R", " ">>

\* mutant of _build_site_filter: a single domain is parenthesised too
_build_site_filter_Parens(domains_) ==
    IF domains_ = <<>> THEN <<>>
    ELSE <<"(">> \o Join(OrSeparator, [i \in 1..Len(domains_) |-> SitePrefix \o domains_[i]])
             \o <<")">>

_build_site_filter(domains_) ==
    IF domains_ = <<>> THEN <<>>
    ELSE IF Len(domains_) = 1 THEN SitePrefix \o domains_[1]
    ELSE <<"(">> \o Join(OrSeparator, [i \in 1..Len(domains_) |-> SitePrefix \o domains_[i]])
             \o <<")">>

\* f'"{s}"'
Quoted(s) == <<"\"">> \o s \o <<"\"">>

\* parts.extend(kws[:2]) for each content type
RECURSIVE KeywordParts(_)
KeywordParts(content_types) ==
    IF content_types = <<>> THEN <<>>
    ELSE LET ct  == content_types[1]
             kws == IF ct \in DOMAIN CONTENT_TYPE_KEYWORDS
                    THEN CONTENT_TYPE_KEYWORDS[ct] ELSE <<>>
         IN  SubSeq(kws, 1, Min(2, Len(kws)))
                \o KeywordParts(SubSeq(content_types, 2, Len(content_types)))

\* the parts list of build_query once the band is known
QueryParts(a, band, domains_) ==
    LET excl     == IF band \in DOMAIN GRADE_EXCLUSIONS
                    THEN GRADE_EXCLUSIONS[band] ELSE <<>>
        site_str == _build_site_filter(domains_)
    IN  <<Quoted(<<"G", "r", "a", "d", "e", " ">> \o FormatGrade(a.grade)),
          Quoted(a.subject), Quoted(a.topic)>>
           \o (IF a.subtopic # <<>> THEN <<Quoted(a.subtopic)>> ELSE <<>>)
           \o KeywordParts(a.content_types)
           \o (IF excl # <<>> THEN <<excl>> ELSE <<>>)
           \o (IF domains_ # <<>> /\ site_str # <<>> THEN <<site_str>> ELSE <<>>)

\* the string build_query returns for arguments a and domains_
QueryString(a, domains_) ==
    Join(<<" ">>, QueryParts(a, _get_grade_band(grade_int(a.grade).n), domains_))

TopicFractions == <<"f", "r", "a", "c", "t", "i", "o", "n", "s">>
SubtopicAdding == <<"a", "d", "d", "i", "n", "g">>

\* grade arguments: ints on and around the band limits, and strs that are
\* digits, padded or signed digits, words, a decimal and the empty string
GradeArgs ==
    {[int |-> TRUE, n |-> n, s |-> <<>>] : n \in {0, 4, 5, 8, 9, 12}}
      \cup {[int |-> FALSE, n |-> 0, s |-> s] :
               s \in {<<"3">>, <<" ", "1", "1">>, <<"+", "9">>, <<"K">>,
                      <<"e", "i", "g", "h", "t">>, <<"3", ".", "5">>, <<>>}}

\* domain lists: None, one domain, two, and the resolved list of the request
DomainArgs(grade, subject) ==
    {<<>>, <<DomCk12>>, <<DomCk12, DomMy>>,
     resolve_domains(grade_int(grade).n, subject, <<>>)}

QueryArgs ==
    [grade : GradeArgs, subject : {SubjMath}, topic : {TopicFractions},
     subtopic : {<<>>, SubtopicAdding},
     content_types : {<<>>, <<"printable", "video", "podcast">>}]

\* query = self.build_query(..., domains) and the relaxed
\* self.build_query(..., domains=None) of the same request
build_query_call ==
    /\ \E a \in QueryArgs :
          \E ds \in (IF grade_int(a.grade).type = "int"
                     THEN DomainArgs(a.grade, a.subject) ELSE {<<>>}) :
             LET r == grade_int(a.grade)
             IN  /\ q_args' = a @@ [domains |-> ds]
                 /\ q_int' = IntOf(a.grade)
                 /\ IF r.type = "int"
                    THEN /\ q_band' = _get_grade_band(r.n)
                         /\ q_strict' = QueryString(a, ds)
                         /\ q_relaxed' = QueryString(a, <<>>)
                         /\ q_raised' = "none"
                    ELSE /\ q_band' = "none"
                         /\ q_strict' = <<>>
                         /\ q_relaxed' = <<>>
                         /\ q_raised' = r.type
    /\ q_pc' = "done"
    /\ UNCHANGED notQuery

NextQuery == build_query_call

SpecQuery == Init /\ [][NextQuery]_vars

(***************************************************************************)
(* Properties of build_query.                                              *)
(***************************************************************************)
\* the site-filter clause of a non-empty domain list, written out
RECURSIVE OrChain(_)
OrChain(ds) ==
    IF Len(ds) = 1 THEN SitePrefix \o ds[1]
    ELSE OrChain(SubSeq(ds, 1, Len(ds) - 1)) \o OrSeparator \o SitePrefix
            \o ds[Len(ds)]

\* C21: build_query with a non-empty domain list is build_query with no
\* domains, one space and one site-filter clause, placed last: site:d without
\* parentheses for one domain, (site:d1 OR ... OR site:dN) for N > 1; with no
\* domains the query has no site: term.
C21_StrictIsRelaxedPlusSites ==
    (q_pc = "done" /\ q_raised = "none") =>
        LET ds == q_args.domains
        IN  /\ ~Contains(q_relaxed, SitePrefix)
            /\ ds = <<>> => q_strict = q_relaxed
            /\ Len(ds) = 1 => q_strict = q_relaxed \o <<" ">> \o SitePrefix \o ds[1]
            /\ Len(ds) > 1 =>
                  q_strict = q_relaxed \o <<" ", "(">> \o OrChain(ds) \o <<")">>

C21_Witness ==
    /\ q_pc = "done"
    /\ q_args.domains = <<DomCk12>>
    /\ q_args.subtopic # <<>>
    /\ q_args.content_types # <<>>
    /\ Len(q_strict) = Len(q_relaxed) + 1 + Len(SitePrefix) + Len(DomCk12)
    /\ Contains(q_strict, <<"f", "i", "l", "e", "t", "y", "p", "e", ":", "p", "d", "f", " ", "+", "w">>)

\* C22: every integer grade has exactly one band, K-4 up to 4, 5-8 from 5 to
\* 8, 9-12 above 8; a grade that does not read as a number is given band 5-8
\* and no error leaves the call.
C22_BandOfGrade ==
    q_pc = "done" =>
        /\ q_raised = "none"
        /\ q_band \in {"K-4", "5-8", "9-12"}
        /\ q_int.type = "int" =>
              /\ q_band = "K-4" <=> q_int.n <= 4
              /\ q_band = "5-8" <=> (4 < q_int.n /\ q_int.n <= 8)
              /\ q_band = "9-12" <=> q_int.n > 8
        /\ q_int.type # "int" =>
              /\ q_band = "5-8"
              /\ Contains(q_relaxed, GRADE_EXCLUSIONS["5-8"])
              /\ Len(q_args.domains) > 2 =>
                    Contains(q_strict, SitePrefix \o <<"i", "x", "l", ".", "c", "o", "m">>)

C22_Witness ==
    /\ q_pc = "done"
    /\ q_args.grade = [int |-> FALSE, n |-> 0, s |-> <<"K">>]
    /\ q_int.type = "ValueError"
    /\ q_band = "5-8"
    /\ Len(q_args.domains) > 2

(***************************************************************************)
(* The crawler's source policy: contracts/source_policy.py and filter_urls *)
(* of crawler/discovery_router.py.  A source_type argument is a SourceType *)
(* member [enum |-> TRUE, value] or a str [enum |-> FALSE, value].         *)
(***************************************************************************)
\* bound: the longest urls list passed to filter_urls
MaxUrls == 2

\* the default set of _load_trusted_domains
TRUSTED_DOMAINS ==
    {<<"b", "y", "j", "u", "s", ".", "c", "o", "m">>,
     <<"v", "e", "d", "a", "n", "t", "u", ".", "c", "o", "m">>,
     <<"k", "h", "a", "n", "a", "c", "a", "d", "e", "m", "y", ".", "o", "r", "g">>}

SourceType == [TRUSTED |-> "trusted", GENERAL |-> "general"]

UrlKhan == <<"h", "t", "t", "p", "s", ":", "/", "/", "w", "w", "w", ".", "k", "h", "a", "n", "a", "c", "a", "d", "e", "m", "y", ".", "o", "r", "g", "/", "s", "c", "i", "e", "n", "c", "e", "/", "p", "h", "y", "s", "i", "c", "s">>
UrlByjus == <<"h", "t", "t", "p", "s", ":", "/", "/", "b", "y", "j", "u", "s", ".", "c", "o", "m", "/", "p", "h", "y", "s", "i", "c", "s", "/", "f", "o", "r", "c", "e", "/">>
UrlExample == <<"h", "t", "t", "p", "s", ":", "/", "/", "e", "x", "a", "m", "p", "l", "e", ".", "c", "o", "m", "/", "b", "l", "o", "g", "/", "p", "h", "y", "s", "i", "c", "s">>
UrlRandom == <<"h", "t", "t", "p", "s", ":", "/", "/", "r", "a", "n", "d", "o", "m", "-", "s", "i", "t", "e", ".", "o", "r", "g", "/", "a", "r", "t", "i", "c", "l", "e">>
UrlVedantu == <<"h", "t", "t", "p", "s", ":", "/", "/", "v", "e", "d", "a", "n", "t", "u", ".", "c", "o", "m", "/", "c", "o", "u", "r", "s", "e">>
UrlByjusCaps == <<"h", "t", "t", "p", "s", ":", "/", "/", "B", "Y", "J", "U", "S", ".", "c", "o", "m", "/", "p", "h", "y", "s", "i", "c", "s">>

CrawlUrlPool == {UrlKhan, UrlByjus, UrlExample, UrlRandom, UrlVedantu, UrlByjusCaps}

CrawlUrlLists == UNION {[1..n -> CrawlUrlPool] : n \in 0..MaxUrls}

SourceTypeArgs == [enum : BOOLEAN, value : {SourceType.TRUSTED, SourceType.GENERAL}]

\* if isinstance(source_type, SourceType): source_type = source_type.value
SourceTypeValue(source_type) == source_type.value

\* mutant of TrustedOnly: nothing is dropped
TrustedOnly_All(urls_) == urls_

\* [u for u in urls if any(domain in u for domain in TRUSTED_DOMAINS)]
RECURSIVE TrustedOnly(_)
TrustedOnly(urls_) ==
    IF urls_ = <<>> THEN <<>>
    ELSE (IF \E domain \in TRUSTED_DOMAINS : Contains(urls_[1], domain)
          THEN <<urls_[1]>> ELSE <<>>)
            \o TrustedOnly(SubSeq(urls_, 2, Len(urls_)))

filter_urls(urls_, source_type) ==
    IF SourceTypeValue(source_type) = SourceType.TRUSTED THEN TrustedOnly(urls_)
    ELSE urls_

\* main(): urls = get_target_urls() and request.source_type are at hand
FilterUrlsCalled ==
    /\ u_pc = "idle"
    /\ u_urls' \in CrawlUrlLists
    /\ u_source_type' \in SourceTypeArgs
    /\ u_out' = <<>>
    /\ u_pc' = "call"
    /\ UNCHANGED notCrawl

\* urls = filter_urls(urls, request.source_type)
FilterUrlsReturns ==
    /\ u_pc = "call"
    /\ u_out' = filter_urls(u_urls, u_source_type)
    /\ u_pc' = "done"
    /\ UNCHANGED <<u_urls, u_source_type>>
    /\ UNCHANGED notCrawl

\* the run ends; the next run starts afresh
CrawlRunEnds ==
    /\ u_pc = "done"
    /\ u_pc' = "idle"
    /\ u_urls' = <<>>
    /\ u_source_type' = [enum |-> FALSE, value |-> "general"]
    /\ u_out' = <<>>
    /\ UNCHANGED notCrawl

NextCrawl == FilterUrlsCalled \/ FilterUrlsReturns \/ CrawlRunEnds

SpecCrawl == Init /\ [][NextCrawl]_vars

(***************************************************************************)
(* Properties of the crawler's filter_urls.                                *)
(***************************************************************************)
\* the positions of u_urls whose url contains a trusted domain
TrustedPositions ==
    {i \in 1..Len(u_urls) : \E d \in TRUSTED_DOMAINS : Contains(u_urls[i], d)}

\* C24: in trusted mode filter_urls returns exactly the input urls that
\* contain a trusted domain, in input order; in general mode it returns the
\* input list unchanged.
C24_TrustedAllowlist ==
    u_pc = "done" =>
        /\ u_source_type.value = "trusted" =>
              /\ Len(u_out) = Cardinality(TrustedPositions)
              /\ \A k \in 1..Len(u_out) :
                    \E i \in TrustedPositions :
                       /\ Cardinality({j \in TrustedPositions : j <= i}) = k
                       /\ u_out[k] = u_urls[i]
        /\ u_source_type.value = "general" => u_out = u_urls

C24_Witness ==
    /\ u_pc = "done"
    /\ u_source_type = [enum |-> TRUE, value |-> "trusted"]
    /\ u_urls = <<UrlExample, UrlKhan>>
    /\ u_out = <<UrlKhan>>

(***************************************************************************)
(* run.py, get_target_urls.  The cache file holds [source, last_updated,   *)
(* urls]; a time stamp is "now" whenever it was written, null otherwise.   *)
(* Urls are short strings.                                                 *)
(***************************************************************************)
UrlA == <<"a">>
UrlB == <<"b">>

\* values of TARGET_URL: unset, one url, another, two with a comma, blanks
TargetUrlValues ==
    {<<>>, UrlA, UrlB, <<"a", ",", " ", "b">>, <<" ">>}

\* url lists written to the cache file by discovery or by hand
CachedUrlLists == {<<UrlA>>, <<UrlB>>, <<UrlA, UrlB>>}

\* json.dump({"source": "manual", "last_updated": None, "urls": []}, f)
EmptyCache == [source |-> "manual", last_updated |-> "null", urls |-> <<>>]

\* env_urls of a set TARGET_URL
EnvUrls(env_target_url) ==
    IF Find(env_target_url, ",", 0) # -1
    THEN LET parts == SplitCommas(env_target_url)
         IN  SelectSeq([i \in 1..Len(parts) |-> Strip(parts[i])],
                       LAMBDA u : u # <<>>)
    ELSE <<Strip(env_target_url)>>

\* if env_urls and env_urls != urls
Overrides(env_target_url, urls_) ==
    /\ env_target_url # <<>>
    /\ EnvUrls(env_target_url) # <<>>
    /\ EnvUrls(env_target_url) # urls_

\* the cache file when get_target_urls is done with it
FileAfter(file, env_target_url) ==
    LET cache == IF file = <<>> THEN EmptyCache ELSE file[1]
    IN  IF Overrides(env_target_url, cache.urls)
        THEN [cache EXCEPT !.urls = EnvUrls(env_target_url),
                           !.last_updated = "now",
                           !.source = "env_target_url_override"]
        ELSE cache

\* what get_target_urls returns or raises for the cache it ends with
Outcome(cache) ==
    IF cache.urls = <<>> THEN [kind |-> "raised", type |-> "RuntimeError", urls |-> <<>>]
    ELSE [kind |-> "returned", type |-> "none", urls |-> cache.urls]

get_target_urls ==
    /\ k_file' = <<FileAfter(k_file, k_env)>>
    /\ k_last' = <<[before |-> k_file, after |-> <<FileAfter(k_file, k_env)>>,
                    env |-> k_env, out |-> Outcome(FileAfter(k_file, k_env))]>>
    /\ UNCHANGED k_env
    /\ UNCHANGED notCache

\* the environment of the next run: TARGET_URL is set, changed or removed
SetTargetUrl ==
    /\ k_env' \in TargetUrlValues \ {k_env}
    /\ UNCHANGED <<k_file, k_last>>
    /\ UNCHANGED notCache

\* discovered urls are written to outputs/discovery/urls.json
CachePopulated ==
    /\ \E us \in CachedUrlLists :
          k_file' = <<[source |-> "discovery", last_updated |-> "now", urls |-> us]>>
    /\ k_file' # k_file
    /\ UNCHANGED <<k_env, k_last>>
    /\ UNCHANGED notCache

\* the cache is explicitly cleared: its urls are emptied or the file removed
CacheCleared ==
    /\ k_file # <<>>
    /\ k_file' \in {<<>>, <<[k_file[1] EXCEPT !.urls = <<>>]>>} \ {k_file}
    /\ UNCHANGED <<k_env, k_last>>
    /\ UNCHANGED notCache

NextCache == get_target_urls \/ SetTargetUrl \/ CachePopulated \/ CacheCleared

SpecCache == Init /\ [][NextCache]_vars

(***************************************************************************)
(* Properties of the discovery cache.                                      *)
(***************************************************************************)
\* C25: once the cache holds a non-empty url list, a get_target_urls call
\* returns exactly those urls and leaves the cache file as it was (the cache
\* not having been cleared in between); a call with no url to return raises
\* RuntimeError.
C25_CacheReused ==
    k_last # <<>> =>
        /\ (k_last[1].before # <<>> /\ k_last[1].before[1].urls # <<>>) =>
              /\ k_last[1].out.kind = "returned"
              /\ k_last[1].out.urls = k_last[1].before[1].urls
              /\ k_last[1].after = k_last[1].before
        /\ k_last[1].out.kind = "raised" => k_last[1].out.type = "RuntimeError"
        /\ k_last[1].out.kind = "returned" => k_last[1].out.urls # <<>>

(***************************************************************************)
(* postprocess/chunker.py.  A section is [heading, content], a chunk is    *)
(* [chunk_id, source_heading, text, token_estimate]; texts are sequences   *)
(* of characters.                                                          *)
(***************************************************************************)
\* bound: MAX_TOKENS as read from the environment (four characters a token)
MAX_TOKENS == 2

\* bound: the longest sections list
MaxSections == 2

\* len(text) // 4
estimate_tokens(text) == Len(text) \div 4

Unknown == <<"U", "n", "k", "n", "o", "w", "n">>

\* Chunk(chunk_id=..., source_heading=current_heading if current_heading
\* else "Unknown", text=..., token_estimate=...)
Chunk(chunk_id, current_heading, text, token_estimate) ==
    [chunk_id |-> chunk_id,
     source_heading |-> IF current_heading # <<>> THEN current_heading ELSE Unknown,
     text |-> text, token_estimate |-> token_estimate]

\* f"{sec.heading}\n{sec.content}\n"
Block(sec) == sec.heading \o <<"\n">> \o sec.content \o <<"\n">>

\* the keyword filter: sections whose heading or content holds a keyword
KeywordFilter(sections, keywords) ==
    LET stripped == [i \in 1..Len(keywords) |-> Strip(keywords[i])]
        k_lower  == {Lower(stripped[i]) : i \in {j \in 1..Len(keywords) : stripped[j] # <<>>}}
    IN  IF keywords = <<>> \/ k_lower = {} THEN sections
        ELSE SelectSeq(sections,
               LAMBDA sec : \E k \in k_lower :
                  Contains(Lower(sec.heading \o <<" ">> \o sec.content), k))

\* the loop of strategy section_aware from section i on, and the last chunk
RECURSIVE SectionAware(_, _, _, _, _)
SectionAware(sections, i, chunks, current_chunk_text, current_heading) ==
    IF i > Len(sections)
    THEN IF current_chunk_text # <<>>
         THEN Append(chunks, Chunk(Len(chunks) + 1, current_heading,
                                   current_chunk_text,
                                   estimate_tokens(current_chunk_text)))
         ELSE chunks
    ELSE LET sec            == sections[i]
             block          == Block(sec)
             block_tokens   == estimate_tokens(block)
             current_tokens == estimate_tokens(current_chunk_text)
         IN  IF current_tokens + block_tokens > MAX_TOKENS
             THEN SectionAware(sections, i + 1,
                    IF current_chunk_text # <<>>
                    THEN Append(chunks, Chunk(Len(chunks) + 1, current_heading,
                                              current_chunk_text, current_tokens))
                    ELSE chunks,
                    block, sec.heading)
             ELSE SectionAware(sections, i + 1, chunks,
                    current_chunk_text \o block,
                    IF current_chunk_text = <<>> THEN sec.heading
                    ELSE current_heading)

\* the while loop of strategy fixed_size over one block
RECURSIVE FixedWhile(_, _, _, _)
FixedWhile(remaining_block, first_pass, heading, st) ==
    IF remaining_block = <<>> THEN st
    ELSE LET head           == IF first_pass /\ st.text = <<>> THEN heading
                               ELSE st.heading
             current_tokens == estimate_tokens(st.text)
             space_chars    == (MAX_TOKENS - current_tokens) * 4
         IN  IF space_chars <= 0
             THEN FixedWhile(remaining_block, FALSE, heading,
                    [chunks |-> Append(st.chunks,
                                  Chunk(Len(st.chunks) + 1, head, st.text,
                                        current_tokens)),
                     text |-> <<>>, heading |-> heading])
             ELSE FixedWhile(
                    SubSeq(remaining_block, space_chars + 1, Len(remaining_block)),
                    FALSE, heading,
                    [chunks |-> st.chunks,
                     text |-> st.text \o SubSeq(remaining_block, 1,
                                 Min(space_chars, Len(remaining_block))),
                     heading |-> head])

\* the loop of strategy fixed_size from section i on, and the last chunk
RECURSIVE FixedSize(_, _, _)
FixedSize(sections, i, st) ==
    IF i > Len(sections)
    THEN IF st.text # <<>>
         THEN Append(st.chunks, Chunk(Len(st.chunks) + 1, st.heading, st.text,
                                      estimate_tokens(st.text)))
         ELSE st.chunks
    ELSE FixedSize(sections, i + 1,
                   FixedWhile(Block(sections[i]), TRUE, sections[i].heading, st))

chunk_sections(sections, strategy, keywords) ==
    LET kept == KeywordFilter(sections, keywords)
    IN  IF strategy = "fixed_size"
        THEN FixedSize(kept, 1, [chunks |-> <<>>, text |-> <<>>, heading |-> <<>>])
        ELSE SectionAware(kept, 1, <<>>, <<>>, <<>>)

\* a content longer than a chunk may be
LongContent == [i \in 1..(4 * MAX_TOKENS + 4) |-> "a"]

SectionPool ==
    [heading : {<<>>, <<"H">>},
     content : {<<>>, <<" ">>, <<"a", " ", "a", " ">>, LongContent}]

SectionLists == UNION {[1..n -> SectionPool] : n \in 0..MaxSections}

Strategies == {"section_aware", "fixed_size", "by_page"}

KeywordArgs == {<<>>, << <<"A", " ">> >>}

\* process_url: doc.sections, the configured strategy and keywords
ChunkSectionsCalled ==
    /\ h_pc = "idle"
    /\ h_sections' \in SectionLists
    /\ h_strategy' \in Strategies
    /\ h_keywords' \in KeywordArgs
    /\ h_pc' = "call"
    /\ UNCHANGED h_chunks
    /\ UNCHANGED notChunk

ChunkSectionsReturns ==
    /\ h_pc = "call"
    /\ h_chunks' = chunk_sections(h_sections, h_strategy, h_keywords)
    /\ h_pc' = "done"
    /\ UNCHANGED <<h_sections, h_strategy, h_keywords>>
    /\ UNCHANGED notChunk

\* the document is done with; the next one is chunked afresh
ChunkRunEnds ==
    /\ h_pc = "done"
    /\ h_pc' = "idle"
    /\ h_sections' = <<>>
    /\ h_strategy' = "section_aware"
    /\ h_keywords' = <<>>
    /\ h_chunks' = <<>>
    /\ UNCHANGED notChunk

NextChunk == ChunkSectionsCalled \/ ChunkSectionsReturns \/ ChunkRunEnds

SpecChunk == Init /\ [][NextChunk]_vars

(***************************************************************************)
(* Properties of chunk_sections.                                           *)
(***************************************************************************)
\* not text.strip()
IsBlank(text) == \A i \in 1..Len(text) : text[i] \in {" ", "\n"}

\* C26: every chunk chunk_sections returns has a text that is not blank, a
\* source_heading that is not empty and a token_estimate of at most
\* MAX_TOKENS, for either strategy; an empty section list gives no chunk.
C26_ChunkContract ==
    h_pc = "done" =>
        /\ \A i \in 1..Len(h_chunks) :
              /\ ~IsBlank(h_chunks[i].text)
              /\ h_chunks[i].source_heading # <<>>
              /\ h_chunks[i].token_estimate <= MAX_TOKENS
        /\ h_sections = <<>> => h_chunks = <<>>

(***************************************************************************)
(* fetch with its delays.  Time is counted in steps of 1/JitterSteps of a  *)
(* second, so that random.uniform(0, 1) is one of 0..JitterSteps steps.    *)
(***************************************************************************)
\* bound: the draws of random.uniform(0, 1) told apart, besides 0
JitterSteps == 2

BASE_DELAY == 2

\* 2 ** n
RECURSIVE Pow2(_)
Pow2(n) == IF n = 0 THEN 1 ELSE 2 * Pow2(n - 1)

\* mutant of BackoffDelay: the attempt does not enter the delay
BackoffDelay_Flat(attempt_, jitter) == BASE_DELAY * JitterSteps + jitter

\* delay = BASE_DELAY * (2 ** attempt) + random.uniform(0, 1), in steps
BackoffDelay(attempt_, jitter) ==
    BASE_DELAY * JitterSteps * Pow2(attempt_) + jitter

\* what ddgs.text may yield in one call
TimedHitLists == {<<>>, <<[url |-> UrlUnit]>>, <<[url |-> UrlIxl], [url |-> UrlOther]>>}

\* fetch is called: backends, last_error and the loops are set up
TimedFetch ==
    /\ t_pc \in {"off", "returned", "raised"}
    /\ t_pc' = "call"
    /\ t_backend' = 1
    /\ t_attempt' = 0
    /\ t_delay' = 0
    /\ t_called' = <<>>
    /\ t_slept' = <<>>
    /\ t_ret' = <<>>
    /\ UNCHANGED notBackoff

\* ddgs.text yields its hits: return results
TimedCallReturns ==
    /\ t_pc = "call"
    /\ \E hits \in TimedHitLists :
          /\ t_called' = Append(t_called, [out |-> "ok", hits |-> hits])
          /\ t_ret' = hits
    /\ t_pc' = "returned"
    /\ UNCHANGED <<t_backend, t_attempt, t_delay, t_slept>>
    /\ UNCHANGED notBackoff

\* ddgs.text raises a rate-limit error: the delay is drawn, the sleep begins
TimedCallRateLimited ==
    /\ t_pc = "call"
    /\ \E e \in ErrorPool : is_rate_limit(e)
    /\ \E jitter \in 0..JitterSteps : t_delay' = BackoffDelay(t_attempt, jitter)
    /\ t_called' = Append(t_called, [out |-> "ratelimit", hits |-> <<>>])
    /\ t_pc' = "sleep"
    /\ UNCHANGED <<t_backend, t_attempt, t_slept, t_ret>>
    /\ UNCHANGED notBackoff

\* the inner loop is left: the next backend, or the raise
TimedNextBackend ==
    IF t_backend < Len(backends)
    THEN /\ t_backend' = t_backend + 1
         /\ t_attempt' = 0
         /\ t_pc' = "call"
         /\ t_called' = <<>>
         /\ t_slept' = <<>>
    ELSE /\ t_pc' = "raised"
         /\ UNCHANGED <<t_backend, t_attempt, t_called, t_slept>>

\* ddgs.text raises another error: break
TimedCallFails ==
    /\ t_pc = "call"
    /\ \E e \in ErrorPool : ~is_rate_limit(e)
    /\ TimedNextBackend
    /\ UNCHANGED <<t_delay, t_ret>>
    /\ UNCHANGED notBackoff

\* time.sleep(delay) ends: the next iteration of range(MAX_RETRIES), if any
TimedBackoff ==
    /\ t_pc = "sleep"
    /\ t_delay' = 0
    /\ IF MoreAttempts(t_attempt)
       THEN /\ t_attempt' = t_attempt + 1
            /\ t_pc' = "call"
            /\ t_slept' = Append(t_slept, t_delay)
            /\ UNCHANGED <<t_backend, t_called>>
       ELSE TimedNextBackend
    /\ UNCHANGED t_ret
    /\ UNCHANGED notBackoff

NextBackoff ==
    \/ TimedFetch
    \/ TimedCallReturns
    \/ TimedCallRateLimited
    \/ TimedCallFails
    \/ TimedBackoff

SpecBackoff == Init /\ [][NextBackoff]_vars

(***************************************************************************)
(* Properties of the backoff delays.                                       *)
(***************************************************************************)
\* the sleeps taken on the backend in use, the one in progress included
Sleeps == IF t_pc = "sleep" THEN Append(t_slept, t_delay) ELSE t_slept

\* C27: the delay after attempt k (from 0) on a backend is BASE_DELAY * 2^k
\* plus a jitter between 0 and 1 second, so the delays of successive
\* rate-limited attempts on a backend strictly increase whatever the jitter;
\* a backend rate-limited on its first two calls that succeeds on the third
\* returns the third call's results after exactly two sleeps.
C27_BackoffGrows ==
    /\ \A k \in 1..Len(Sleeps) :
          /\ Sleeps[k] >= BASE_DELAY * JitterSteps * Pow2(k - 1)
          /\ Sleeps[k] <= BASE_DELAY * JitterSteps * Pow2(k - 1) + JitterSteps
    /\ \A k \in 1..(Len(Sleeps) - 1) : Sleeps[k + 1] > Sleeps[k]
    /\ (/\ t_pc = "returned"
        /\ Len(t_called) = 3
        /\ t_called[1].out = "ratelimit"
        /\ t_called[2].out = "ratelimit") =>
          /\ t_called[3].out = "ok"
          /\ t_ret = t_called[3].hits
          /\ Len(t_slept) = 2

\* the longest first sleep and the shortest second one, then a success
C27_Witness ==
    /\ t_pc = "returned"
    /\ Len(t_called) = 3
    /\ t_called[1].out = "ratelimit"
    /\ t_called[2].out = "ratelimit"
    /\ t_ret # <<>>
    /\ t_slept = <<BASE_DELAY * JitterSteps + JitterSteps, 2 * BASE_DELAY * JitterSteps>>

(***************************************************************************)
(* Two concurrent calls of fetch.  The locals of a call (backend, attempt, *)
(* last_error, results) live in its frame; Owner names the frame a call    *)
(* works on.                                                               *)
(***************************************************************************)
\* bound: the backend calls one fetch call is followed for
PairCalls == 4

Callers == 1..2

\* mutant of Owner: the loop state is kept in one place for all calls
Owner_Shared(c) == 1

\* backends, last_error, backend, attempt and results are locals of fetch
Owner(c) == c

PairErrors == {ErrRateLimit, ErrTimeout}

\* what ddgs.text yields to each call on success: different queries
PairHits(c) == IF c = 1 THEN <<[url |-> UrlUnit]>> ELSE <<[url |-> UrlIxl]>>

PairEvent(c, out, hits) ==
    [backend |-> backends[p_backend[Owner(c)]], attempt |-> p_attempt[Owner(c)],
     out |-> out, hits |-> hits]

\* fetch is called: its frame is set up
PairFetch(c) ==
    /\ p_pc[c] = "off"
    /\ p_pc' = [p_pc EXCEPT ![c] = "call"]
    /\ p_backend' = [p_backend EXCEPT ![Owner(c)] = 1]
    /\ p_attempt' = [p_attempt EXCEPT ![Owner(c)] = 0]
    /\ p_last_error' = [p_last_error EXCEPT ![Owner(c)] = <<>>]
    /\ UNCHANGED <<p_results, p_log, p_ret>>
    /\ UNCHANGED notPair

\* ddgs.text yields its hits: return results
PairCallReturns(c) ==
    /\ p_pc[c] = "call"
    /\ Len(p_log[c]) < PairCalls
    /\ p_results' = [p_results EXCEPT ![Owner(c)] = PairHits(c)]
    /\ p_log' = [p_log EXCEPT ![c] = Append(@, PairEvent(c, <<>>, PairHits(c)))]
    /\ p_ret' = [p_ret EXCEPT ![c] = <<p_results'[Owner(c)]>>]
    /\ p_pc' = [p_pc EXCEPT ![c] = "returned"]
    /\ UNCHANGED <<p_backend, p_attempt, p_last_error>>
    /\ UNCHANGED notPair

\* ddgs.text raises a rate-limit error: the sleep begins
PairCallRateLimited(c) ==
    /\ p_pc[c] = "call"
    /\ Len(p_log[c]) < PairCalls
    /\ \E e \in PairErrors :
          /\ is_rate_limit(e)
          /\ p_last_error' = [p_last_error EXCEPT ![Owner(c)] = <<e>>]
          /\ p_log' = [p_log EXCEPT ![c] = Append(@, PairEvent(c, e, <<>>))]
    /\ p_pc' = [p_pc EXCEPT ![c] = "sleep"]
    /\ UNCHANGED <<p_backend, p_attempt, p_results, p_ret>>
    /\ UNCHANGED notPair

\* the inner loop is left: the next backend, or the raise
PairNextBackend(c, err) ==
    IF p_backend[Owner(c)] < Len(backends)
    THEN /\ p_backend' = [p_backend EXCEPT ![Owner(c)] = @ + 1]
         /\ p_attempt' = [p_attempt EXCEPT ![Owner(c)] = 0]
         /\ p_pc' = [p_pc EXCEPT ![c] = "call"]
         /\ UNCHANGED p_ret
    ELSE /\ p_pc' = [p_pc EXCEPT ![c] = "raised"]
         /\ p_ret' = [p_ret EXCEPT ![c] = <<DDGSearchError(err)>>]
         /\ UNCHANGED <<p_backend, p_attempt>>

\* ddgs.text raises another error: break
PairCallFails(c) ==
    /\ p_pc[c] = "call"
    /\ Len(p_log[c]) < PairCalls
    /\ \E e \in PairErrors :
          /\ ~is_rate_limit(e)
          /\ p_last_error' = [p_last_error EXCEPT ![Owner(c)] = <<e>>]
          /\ p_log' = [p_log EXCEPT ![c] = Append(@, PairEvent(c, e, <<>>))]
          /\ PairNextBackend(c, <<e>>)
    /\ UNCHANGED p_results
    /\ UNCHANGED notPair

\* time.sleep(delay) ends: the next iteration of range(MAX_RETRIES), if any
PairBackoff(c) ==
    /\ p_pc[c] = "sleep"
    /\ IF MoreAttempts(p_attempt[Owner(c)])
       THEN /\ p_attempt' = [p_attempt EXCEPT ![Owner(c)] = @ + 1]
            /\ p_pc' = [p_pc EXCEPT ![c] = "call"]
            /\ UNCHANGED <<p_backend, p_ret>>
       ELSE PairNextBackend(c, p_last_error[Owner(c)])
    /\ UNCHANGED <<p_last_error, p_results, p_log>>
    /\ UNCHANGED notPair

NextPair ==
    \E c \in Callers :
       \/ PairFetch(c)
       \/ PairCallReturns(c)
       \/ PairCallRateLimited(c)
       \/ PairCallFails(c)
       \/ PairBackoff(c)

SpecPair == Init /\ [][NextPair]_vars

(***************************************************************************)
(* Properties of concurrent calls.                                         *)
(***************************************************************************)
\* the backend and attempt of each call that a fetch running alone makes
\* when its calls have the outcomes outs, from outcome i on
RECURSIVE Alone(_, _, _, _)
Alone(outs, i, b, a) ==
    IF i > Len(outs) THEN <<>>
    ELSE <<[backend |-> backends[b], attempt |-> a]>> \o
         (IF outs[i] = <<>> THEN <<>>
          ELSE IF is_rate_limit(outs[i]) /\ a + 1 < MAX_RETRIES
               THEN Alone(outs, i + 1, b, a + 1)
          ELSE IF b < Len(backends) THEN Alone(outs, i + 1, b + 1, 0)
          ELSE <<>>)

\* the outcomes call c met, in order
OutcomesOf(c) == [i \in 1..Len(p_log[c]) |-> p_log[c][i].out]

\* C23: two fetch calls in progress at once are independent: whatever the
\* interleaving of their backend calls and sleeps, each makes the attempts it
\* would make alone with the outcomes it met, returns the hits of its own
\* successful call, and raises with its own last error.
C23_CallsIndependent ==
    \A c \in Callers :
       /\ [i \in 1..Len(p_log[c]) |->
              [backend |-> p_log[c][i].backend, attempt |-> p_log[c][i].attempt]]
            = Alone(OutcomesOf(c), 1, 1, 0)
       /\ p_pc[c] = "returned" =>
             /\ p_log[c][Len(p_log[c])].out = <<>>
             /\ p_ret[c] = <<p_log[c][Len(p_log[c])].hits>>
       /\ p_pc[c] = "raised" =>
             p_ret[c] = <<DDGSearchError(<<p_log[c][Len(p_log[c])].out>>)>>

\* call 1 sleeps after its third rate limit on the first backend while call 2
\* has been rate-limited once and, later, call 2 returns from its retry
C23_Witness ==
    /\ p_pc[1] = "sleep"
    /\ Len(p_log[1]) = 3
    /\ p_pc[2] = "returned"
    /\ Len(p_log[2]) = 2
    /\ p_log[2][2].backend = "auto"
    /\ p_log[2][2].attempt = 1
====
